---- MODULE Spec2Model ----
(***************************************************************************)
(* A model of the marketplace simulator's ledger                           *)
(* (src/ledger/mock_ledger.py: the account table, the escrow table and the *)
(* transaction history of MockLedger, one action per public method) and of *)
(* its negotiator (src/ai/rl_negotiation.py: the Q-table of RLNegotiator   *)
(* and the steps of negotiate) and of its selectors                        *)
(* (src/ai/bandit_selection.py: the arm statistics of MultiArmedBandit and *)
(* the weights of ContextualBandit), of its agents                         *)
(* (src/agents/agent_base.py: handle_request) and of the rounds of its     *)
(* simulation loop (src/main.py: run_simulation).                          *)
(*                                                                         *)
(*   Spec         the ledger, one caller at a time, amounts >= 0           *)
(*   SpecInt      the ledger, one caller at a time, any int as amount      *)
(*   SpecAudit    the ledger, one caller at a time, positive amounts, with *)
(*                an auditor remembering the lock ids already settled      *)
(*   SpecConc     the ledger, several callers whose calls interleave       *)
(*                between the dictionary reads and writes of the methods   *)
(*   SpecNeg      the negotiator, one negotiate call after the other       *)
(*   SpecNegFair  the negotiator for one reputation, with the fairness of  *)
(*                sequential code                                          *)
(*   SpecGreedy   the negotiator built with epsilon = 0                    *)
(*   SpecKeys     direct calls of get_state                                *)
(*   SpecTable    direct calls of get_action and update_q_value            *)
(*   SpecBandit   the context-free selector, its methods in any order      *)
(*   SpecUcb      select_ucb1, each call followed by the update of the arm *)
(*                it returned                                              *)
(*   SpecLearn    the learning updates of both selectors                   *)
(*   SpecRead     the ledger with callers that read it between the writes  *)
(*   SpecScenario the ledger making the calls of the documented scenario   *)
(*   SpecOffers   the negotiator called with small offers and prices       *)
(*   SpecAgent    handle_request of the agents, called directly            *)
(*   SpecSim      the rounds of run_simulation                             *)
(***************************************************************************)
EXTENDS Integers, Sequences, FiniteSets, TLC

\* ------------------------------------------------------------------ bounds
MaxAmount == 1      \* amounts and initial balances passed by callers: .. MaxAmount
MaxRecords == 1     \* active escrow locks plus transaction records explored (see InBounds)
MaxTime == 1        \* the clock runs over the seconds 0 .. MaxTime
MaxCalls == 1       \* calls each concurrent caller makes
MaxRounds == 2      \* max_rounds passed to negotiate: 0 .. MaxRounds
MaxPulls == 3       \* update_reward calls explored
MaxWeightUpdates == 1   \* update_weights calls explored
MaxUpdates == 4     \* update_q_value calls explored, over all negotiations

\* --------------------------------------------------------- program constants
DefaultBalance == 0     \* dict.get(name, 0): the balance reported for an unknown account
HashMod == 10000        \* hash(...) % 10000 in lock ids and transaction ids
LearningRateTenths == 1 \* learning_rate = 0.1, in tenths
SuccessThreshold == 2   \* a reward counts as a success when r > 0.5; in quarters
DiscountTenths == 9     \* discount_factor = 0.9, in tenths
InitialReputation == 50 \* AgentBase.reputation = 5.0, in tenths

\* ------------------------------------------------------------------ inputs
Names == {"A", "B"}                 \* account identifiers callers pass
Purposes == {"escrow"}              \* purpose strings callers pass to lock_funds
Services == {"clean_data"}          \* service tags callers pass to transfer
Amounts == (0 - 1) .. MaxAmount     \* amount: int, not validated by the ledger
NatAmounts == 0 .. MaxAmount        \* the amounts that are not negative
PosAmounts == 1 .. MaxAmount        \* the amounts that move value
InitialBalances == 0 .. MaxAmount   \* initial_balance of create_account

VARIABLES
    accounts,               \* MockLedger.accounts: dict name -> balance
    locked_funds,           \* MockLedger.locked_funds: dict lock id -> lock record
    transaction_history,    \* MockLedger.transaction_history: list of Transaction
    now,                    \* int(time.time()): the clock, in whole seconds
    last,                   \* the last call made on the ledger and what it returned
    th,                     \* concurrent callers: where each is in its call, its locals
    settled,                \* audit: the lock ids a release or return has succeeded for
    q_table,                \* RLNegotiator.q_table: dict state -> dict action -> value
    neg,                    \* the negotiate call in progress: its position and locals
    taken,                  \* the decisions of that call: state, action, reward, offer
    updates,                \* the number of update_q_value calls made so far
    answer,                 \* the last direct call of a negotiator or selector method
                            \* and its result
    rewards,                \* MultiArmedBandit.rewards: dict arm -> list of rewards
    selection_count,        \* MultiArmedBandit.selection_count: dict arm -> count
    cumulative_reward,      \* MultiArmedBandit.cumulative_reward: dict arm -> sum
    total_selections,       \* MultiArmedBandit.total_selections
    weights,                \* ContextualBandit.weights: dict arm -> vector
    history,                \* ContextualBandit.history: list of update records
    agents,                 \* AgentBase.load and AgentBase.service_history of each agent
    sim                     \* run_simulation: the round in progress, its locals

ledgerVars == <<accounts, locked_funds, transaction_history, now, last>>
marketVars == <<agents, sim>>
\* everything but the negotiator and the bandits
ledgerSide == <<accounts, locked_funds, transaction_history, now, last, th, settled,
                marketVars>>
negVars == <<q_table, neg, taken, updates>>
armVars == <<rewards, selection_count, cumulative_reward, total_selections>>
banditVars == <<rewards, selection_count, cumulative_reward, total_selections,
                weights, history>>
\* everything but the ledger
aiVars == <<q_table, neg, taken, updates, answer, banditVars, marketVars>>
vars == <<accounts, locked_funds, transaction_history, now, last, th, settled,
          q_table, neg, taken, updates, answer,
          rewards, selection_count, cumulative_reward, total_selections, weights, history,
          agents, sim>>

\* ------------------------------------------------------- dictionaries (dict)
\* d.get(k, default)
Get(d, k, default) == IF k \in DOMAIN d THEN d[k] ELSE default

\* d[k] = v
Put(d, k, v) == [x \in (DOMAIN d) \cup {k} |-> IF x = k THEN v ELSE d[x]]

\* a pop that leaves the key in place
PopKeepsKey(d, k) == d

\* d.pop(k), the remaining dictionary
Pop(d, k) == [x \in (DOMAIN d) \ {k} |-> d[x]]

RECURSIVE SumOver(_, _)
SumOver(d, keys) ==
    IF keys = {} THEN 0
    ELSE LET k == CHOOSE x \in keys : TRUE
         IN d[k] + SumOver(d, keys \ {k})

\* sum(d.values())
SumValues(d) == SumOver(d, DOMAIN d)

\* ---------------------------------------------------------- strings, hashes
\* The characters of the strings that are hashed, as codes.
Chars(s) ==
    CASE s = "A" -> <<65>>
      [] s = "B" -> <<66>>
      [] s = "escrow" -> <<101, 115, 99, 114, 111, 119>>
      [] s = "deal" -> <<100, 101, 97, 108>>
      [] s = "DataProcessor_A" ->
            <<68, 97, 116, 97, 80, 114, 111, 99, 101, 115, 115, 111, 114, 95, 65>>
      [] s = "Translator_B" -> <<84, 114, 97, 110, 115, 108, 97, 116, 111, 114, 95, 66>>
      [] s = "Computer_C" -> <<67, 111, 109, 112, 117, 116, 101, 114, 95, 67>>
      [] s = "Client_X" -> <<67, 108, 105, 101, 110, 116, 95, 88>>

RECURSIVE Digits(_)
Digits(n) == IF n < 10 THEN <<48 + n>> ELSE Digits(n \div 10) \o <<48 + (n % 10)>>

\* f'{amount}': the decimal text of an int
IntStr(n) == IF n < 0 THEN <<45>> \o Digits(0 - n) ELSE Digits(n)

RECURSIVE Mix(_, _)
Mix(h, cs) == IF cs = <<>> THEN h ELSE Mix((h * 31 + Head(cs)) % 1000003, Tail(cs))

\* hash(s) % 10000: within one process a function of the characters of s
\* (equal strings hash equally).
PyHashMod(cs) == Mix(7, cs) % HashMod

\* f"lock_{int(time.time())}_{hash(purpose) % 10000}"
LockId(t, purpose) == [sec |-> t, h |-> PyHashMod(Chars(purpose))]

\* f"tx_{int(self.timestamp)}_{hash(f'{sender}{receiver}{amount}') % 10000}"
TxId(t, sender, receiver, amount) ==
    [sec |-> t, h |-> PyHashMod(Chars(sender) \o Chars(receiver) \o IntStr(amount))]

\* Transaction.__init__
Transaction(sender, receiver, amount, service) ==
    [sender |-> sender, receiver |-> receiver, amount |-> amount, service |-> service,
     timestamp |-> now, tx_id |-> TxId(now, sender, receiver, amount)]

\* the history holding nothing but the new record
OnlyRecord(hist, tx) == <<tx>>

\* self.transaction_history.append(tx)
AppendRecord(hist, tx) == Append(hist, tx)

\* the lock ids a caller can hold or make up
LockIds == {LockId(t, p) : t \in 0 .. MaxTime, p \in Purposes}

\* ------------------------------------------------------------- ledger reads
\* get_balance
get_balance(agent_name) == Get(accounts, agent_name, DefaultBalance)

\* get_ledger_stats()['total_supply']
TotalSupplyOf(accts, locks) ==
    SumValues(accts) + SumValues([l \in DOMAIN locks |-> locks[l].amount])

TotalSupply == TotalSupplyOf(accounts, locked_funds)

\* ------------------------------------------------------------- ledger steps
\* the balance check left out
HasFundsUnchecked(accts, name, amount) == TRUE

\* the balance check of transfer and lock_funds
HasFunds(accts, name, amount) == Get(accts, name, DefaultBalance) >= amount

\* a debit with the sign reversed
DebitAdds(accts, name, amount) == Put(accts, name, accts[name] + amount)

\* self.accounts[name] -= amount   (name is a key of accts)
Debit(accts, name, amount) == Put(accts, name, accts[name] - amount)

\* self.accounts[name] = self.accounts.get(name, 0) + amount
Credit(accts, name, amount) == Put(accts, name, Get(accts, name, DefaultBalance) + amount)

\* the locked amount credited to nobody
CreditOwnerForgotten(accts, locked) == accts

\* self.accounts[locked['agent']] += locked['amount']   (the owner is a key of accts)
CreditOwner(accts, locked) == Put(accts, locked.agent, accts[locked.agent] + locked.amount)

NoLock == [sec |-> 0 - 1, h |-> 0 - 1]

\* a call and its result: "True", "False", "None", "lock_id" (with the id
\* returned) or the exception raised; bal is the balance the locking account
\* had when a successful lock_funds was entered
Call(op, lock, ret) == [op |-> op, lock |-> lock, ret |-> ret, bal |-> 0]

MinBalance == 0 - 1             \* balances explored: MinBalance ..
MaxBalance == MaxAmount + 1     \* .. MaxBalance

\* the balances of accounts opened with the default balance of the
\* marketplace, 100, and of the documented scenario that moves some of it
MarketBalances == 20 .. 200

\* the states the bounds keep: balances in range and at most MaxRecords locks
\* and records, or one record more when no lock is active and the history is
\* one transfer made again and again; or accounts with the balances of the
\* marketplace, at most MaxRecords locks and at most MaxRecords records
InBounds(accts, locks, hist) ==
    \/ /\ \A n \in DOMAIN accts : accts[n] \in MinBalance .. MaxBalance
       /\ \/ Cardinality(DOMAIN locks) + Len(hist) <= MaxRecords
          \/ /\ locks = <<>>
             /\ Len(hist) = MaxRecords + 1
             /\ \A i \in 2 .. Len(hist) : /\ hist[i].sender = hist[1].sender
                                         /\ hist[i].receiver = hist[1].receiver
                                         /\ hist[i].amount = hist[1].amount
    \/ /\ accts # <<>>
       /\ \A n \in DOMAIN accts : accts[n] \in MarketBalances
       /\ Cardinality(DOMAIN locks) <= MaxRecords
       /\ Len(hist) <= MaxRecords

Threads == {"t1", "t2"}

\* a caller that is not inside a call
Idle(n) == [pc |-> "idle", a |-> "A", b |-> "A", amount |-> 0, purpose |-> "escrow",
            lock |-> NoLock, tmp |-> 0, ret |-> "None", calls |-> n]

\* a negotiator that is not inside negotiate
NoCall == [pc |-> "idle", service_type |-> "clean_data", initial_offer |-> 0,
           market_price |-> 1, agent_reputation |-> 0, max_rounds |-> 0,
           current_offer |-> 0, round_num |-> 0, outcome |-> "None", price |-> 0]

\* RLNegotiator.__init__
InitNegotiator ==
    /\ q_table = <<>>
    /\ neg = NoCall
    /\ taken = <<>>
    /\ updates = 0
    /\ answer = [op |-> "None", args |-> <<>>, ret |-> "None"]

\* the arms of service_bandit and contextual_bandit, in list order
Arms == <<"DataProcessor_A", "Translator_B", "Computer_C">>
ArmSet == {Arms[i] : i \in 1 .. Len(Arms)}

\* weights are kept in units of 1 / WeightScale: one update_weights call adds
\* four decimals to the one decimal of the initial weights
WeightScale == 10 ^ (4 * MaxWeightUpdates + 1)

\* one draw of np.random.normal(0, 0.1, 4): 0.1, -0.1, 0.0, 0.2
DrawnWeights == <<WeightScale \div 10, 0 - (WeightScale \div 10), 0, 2 * (WeightScale \div 10)>>
\* another draw: -0.2, 0.0, 0.1, 0.1
OtherDrawnWeights == <<0 - 2 * (WeightScale \div 10), 0, WeightScale \div 10, WeightScale \div 10>>

\* MultiArmedBandit.__init__
InitArms ==
    /\ rewards = [a \in ArmSet |-> <<>>]
    /\ selection_count = [a \in ArmSet |-> 0]
    /\ cumulative_reward = [a \in ArmSet |-> 0]
    /\ total_selections = 0

\* run_simulation before its first round
NoRound == [pc |-> "idle", sender |-> "None", receiver |-> "None",
            service_type |-> "None", offered_price |-> 0, context |-> <<0, 0, 0, 0>>,
            market_price |-> 0, agent_reputation |-> 0, success |-> FALSE]

\* AgentBase.__init__ of every agent: no load, no service served
InitAgents ==
    /\ agents = [a \in ArmSet |-> [load |-> 0, service_history |-> <<>>]]
    /\ sim = NoRound

\* MultiArmedBandit.__init__ and ContextualBandit.__init__
InitBandits ==
    /\ InitArms
    /\ weights = [a \in ArmSet |-> DrawnWeights]
    /\ history = <<>>

Init ==
    /\ InitNegotiator
    /\ InitBandits
    /\ InitAgents
    /\ th = [t \in Threads |-> Idle(0)]
    /\ settled = {}
    /\ accounts = <<>>
    /\ transaction_history = <<>>
    /\ locked_funds = <<>>
    /\ now = 0
    /\ last = Call("init", NoLock, "None")

\* time passes between two calls
Tick ==
    /\ now < MaxTime
    /\ now' = now + 1
    /\ UNCHANGED <<accounts, locked_funds, transaction_history, last, th>>

create_account(agent_name, initial_balance) ==
    /\ accounts' = Put(accounts, agent_name, initial_balance)
    /\ last' = Call("create_account", NoLock, "None")
    /\ InBounds(accounts', locked_funds, transaction_history)
    /\ UNCHANGED <<locked_funds, transaction_history, now, th>>

transfer(sender, receiver, amount, service) ==
    /\ IF HasFunds(accounts, sender, amount)
       THEN IF sender \in DOMAIN accounts
            THEN /\ accounts' = Credit(Debit(accounts, sender, amount), receiver, amount)
                 /\ transaction_history' =
                        AppendRecord(transaction_history,
                                     Transaction(sender, receiver, amount, service))
                 /\ last' = Call("transfer", NoLock, "True")
            ELSE \* self.accounts[sender] -= amount raises KeyError
                 /\ UNCHANGED <<accounts, transaction_history>>
                 /\ last' = Call("transfer", NoLock, "KeyError")
       ELSE /\ UNCHANGED <<accounts, transaction_history>>
            /\ last' = Call("transfer", NoLock, "False")
    /\ InBounds(accounts', locked_funds, transaction_history')
    /\ UNCHANGED <<locked_funds, now, th>>

lock_funds(agent_name, amount, purpose) ==
    /\ IF HasFunds(accounts, agent_name, amount)
       THEN IF agent_name \in DOMAIN accounts
            THEN /\ accounts' = Debit(accounts, agent_name, amount)
                 /\ locked_funds' = Put(locked_funds, LockId(now, purpose),
                        [agent |-> agent_name, amount |-> amount, purpose |-> purpose,
                         timestamp |-> now])
                 /\ last' = [Call("lock_funds", LockId(now, purpose), "lock_id")
                                EXCEPT !.bal = accounts[agent_name]]
            ELSE \* self.accounts[agent_name] -= amount raises KeyError
                 /\ UNCHANGED <<accounts, locked_funds>>
                 /\ last' = Call("lock_funds", NoLock, "KeyError")
       ELSE /\ UNCHANGED <<accounts, locked_funds>>
            /\ last' = Call("lock_funds", NoLock, "None")
    /\ InBounds(accounts', locked_funds', transaction_history)
    /\ UNCHANGED <<transaction_history, now, th>>

\* a release that writes a record of the move into the history
ReleaseRecorded(lock_id, to_agent) ==
    /\ lock_id \in DOMAIN locked_funds
    /\ locked_funds' = Pop(locked_funds, lock_id)
    /\ accounts' = Credit(accounts, to_agent, locked_funds[lock_id].amount)
    /\ transaction_history' =
           AppendRecord(transaction_history,
                        Transaction(locked_funds[lock_id].agent, to_agent,
                                    locked_funds[lock_id].amount, "clean_data"))
    /\ last' = Call("release_funds", lock_id, "True")
    /\ UNCHANGED <<now, th>>

release_funds(lock_id, to_agent) ==
    /\ IF lock_id \in DOMAIN locked_funds
       THEN /\ locked_funds' = Pop(locked_funds, lock_id)
            /\ accounts' = Credit(accounts, to_agent, locked_funds[lock_id].amount)
            /\ last' = Call("release_funds", lock_id, "True")
       ELSE /\ UNCHANGED <<accounts, locked_funds>>
            /\ last' = Call("release_funds", lock_id, "False")
    /\ InBounds(accounts', locked_funds', transaction_history)
    /\ UNCHANGED <<transaction_history, now, th>>

return_locked_funds(lock_id) ==
    /\ IF lock_id \in DOMAIN locked_funds
       THEN LET locked == locked_funds[lock_id]
            IN /\ locked_funds' = Pop(locked_funds, lock_id)
               /\ IF locked.agent \in DOMAIN accounts
                  THEN /\ accounts' = CreditOwner(accounts, locked)
                       /\ last' = Call("return_locked_funds", lock_id, "True")
                  ELSE \* self.accounts[locked['agent']] += ... raises KeyError
                       /\ UNCHANGED accounts
                       /\ last' = Call("return_locked_funds", lock_id, "KeyError")
       ELSE /\ UNCHANGED <<accounts, locked_funds>>
            /\ last' = Call("return_locked_funds", lock_id, "False")
    /\ InBounds(accounts', locked_funds', transaction_history)
    /\ UNCHANGED <<transaction_history, now, th>>

\* The ledger called by one caller at a time, with amounts >= 0.
Next ==
    \/ Tick /\ UNCHANGED <<settled, aiVars>>
    \/ (\E n \in Names, b \in InitialBalances : create_account(n, b)) /\ UNCHANGED <<settled, aiVars>>
    \/ (\E s \in Names, r \in Names, a \in NatAmounts, sv \in Services : transfer(s, r, a, sv))
            /\ UNCHANGED <<settled, aiVars>>
    \/ (\E n \in Names, a \in NatAmounts, p \in Purposes : lock_funds(n, a, p))
            /\ UNCHANGED <<settled, aiVars>>
    \/ (\E l \in LockIds, n \in Names : release_funds(l, n)) /\ UNCHANGED <<settled, aiVars>>
    \/ (\E l \in LockIds : return_locked_funds(l)) /\ UNCHANGED <<settled, aiVars>>

Spec == Init /\ [][Next]_vars

\* The ledger called by one caller at a time, with any int as amount (the
\* methods do not validate it).
NextInt ==
    \/ Tick /\ UNCHANGED <<settled, aiVars>>
    \/ (\E n \in Names, b \in InitialBalances : create_account(n, b)) /\ UNCHANGED <<settled, aiVars>>
    \/ (\E s \in Names, r \in Names, a \in Amounts, sv \in Services : transfer(s, r, a, sv))
            /\ UNCHANGED <<settled, aiVars>>
    \/ (\E n \in Names, a \in Amounts, p \in Purposes : lock_funds(n, a, p))
            /\ UNCHANGED <<settled, aiVars>>
    \/ (\E l \in LockIds, n \in Names : release_funds(l, n)) /\ UNCHANGED <<settled, aiVars>>
    \/ (\E l \in LockIds : return_locked_funds(l)) /\ UNCHANGED <<settled, aiVars>>

SpecInt == Init /\ [][NextInt]_vars

\* The ledger moving positive amounts, with an auditor noting, after each call,
\* the lock id that a release_funds or return_locked_funds call has just settled.
Audit ==
    /\ settled' = IF last'.op \in {"release_funds", "return_locked_funds"}
                     /\ last'.ret = "True" /\ locked_funds' # locked_funds
                  THEN settled \cup {last'.lock}
                  ELSE settled
    /\ UNCHANGED aiVars

NextAudit ==
    \/ Tick /\ Audit
    \/ (\E n \in Names, b \in InitialBalances : create_account(n, b)) /\ Audit
    \/ (\E s \in Names, r \in Names, a \in PosAmounts, sv \in Services : transfer(s, r, a, sv))
            /\ Audit
    \/ (\E n \in Names, a \in PosAmounts, p \in Purposes : lock_funds(n, a, p)) /\ Audit
    \/ (\E l \in LockIds, n \in Names : release_funds(l, n)) /\ Audit
    \/ (\E l \in LockIds : return_locked_funds(l)) /\ Audit

SpecAudit == Init /\ [][NextAudit]_vars

\* ------------------------------------------------- the reads of the ledger
\* the agent_name arguments of get_transaction_history: a name, or None
HistoryFilters == Names \cup {"None"}

\* get_transaction_history: the records naming agent_name, all of them for None
get_transaction_history(agent_name) ==
    IF agent_name = "None"
    THEN transaction_history
    ELSE SelectSeq(transaction_history,
                   LAMBDA tx : tx.sender = agent_name \/ tx.receiver = agent_name)

\* statistics that count the balances only
StatsOfBalances ==
    [total_accounts |-> Cardinality(DOMAIN accounts),
     total_supply |-> SumValues(accounts),
     total_transactions |-> Len(transaction_history),
     locked_funds |-> Cardinality(DOMAIN locked_funds)]

\* get_ledger_stats
get_ledger_stats ==
    [total_accounts |-> Cardinality(DOMAIN accounts),
     total_supply |-> TotalSupplyOf(accounts, locked_funds),
     total_transactions |-> Len(transaction_history),
     locked_funds |-> Cardinality(DOMAIN locked_funds)]

\* no read has been made since the ledger last changed
NoRead == [op |-> "None", args |-> <<>>, ret |-> "None"]

\* a caller reads a balance
GetBalance(agent_name) ==
    /\ answer' = [op |-> "get_balance", args |-> [agent_name |-> agent_name],
                  ret |-> get_balance(agent_name)]
    /\ UNCHANGED <<negVars, banditVars, ledgerSide>>

\* a caller reads the history
GetTransactionHistory(agent_name) ==
    /\ answer' = [op |-> "get_transaction_history", args |-> [agent_name |-> agent_name],
                  ret |-> get_transaction_history(agent_name)]
    /\ UNCHANGED <<negVars, banditVars, ledgerSide>>

\* a caller reads the statistics
GetLedgerStats ==
    /\ answer' = [op |-> "get_ledger_stats", args |-> <<>>, ret |-> get_ledger_stats]
    /\ UNCHANGED <<negVars, banditVars, ledgerSide>>

\* a call that writes: what was read before it is forgotten
Writes ==
    /\ answer' = NoRead
    /\ UNCHANGED <<settled, negVars, banditVars, marketVars>>

\* The ledger moving positive amounts within one clock second, with callers
\* that read it between the calls that write.
NextRead ==
    \/ (\E n \in Names, b \in InitialBalances : create_account(n, b)) /\ Writes
    \/ (\E s \in Names, r \in Names, a \in PosAmounts, sv \in Services : transfer(s, r, a, sv))
            /\ Writes
    \/ (\E n \in Names, a \in PosAmounts, p \in Purposes : lock_funds(n, a, p)) /\ Writes
    \/ (\E l \in LockIds, n \in Names : release_funds(l, n)) /\ Writes
    \/ (\E l \in LockIds : return_locked_funds(l)) /\ Writes
    \/ \E n \in Names : GetBalance(n)
    \/ \E n \in HistoryFilters : GetTransactionHistory(n)
    \/ GetLedgerStats

SpecRead == Init /\ [][NextRead]_vars

\* ------------------------------------------------- the documented scenario
OpeningBalance == 100               \* create_account(name, 100)
ScenarioTransfers == {50, 100}      \* the amounts the scenario transfers
ScenarioLock == 30                  \* the amount the scenario locks

\* The calls of the scenario (accounts opened with 100, transfers of 50 and of
\* 100, a lock of 30, its release or return), made by one caller in any order
\* within one clock second.
NextScenario ==
    \/ (\E n \in Names : create_account(n, OpeningBalance)) /\ UNCHANGED <<settled, aiVars>>
    \/ (\E s \in Names, r \in Names, a \in ScenarioTransfers, sv \in Services :
            transfer(s, r, a, sv)) /\ UNCHANGED <<settled, aiVars>>
    \/ (\E n \in Names, p \in Purposes : lock_funds(n, ScenarioLock, p))
            /\ UNCHANGED <<settled, aiVars>>
    \/ (\E l \in LockIds, n \in Names : release_funds(l, n)) /\ UNCHANGED <<settled, aiVars>>
    \/ (\E l \in LockIds : return_locked_funds(l)) /\ UNCHANGED <<settled, aiVars>>

SpecScenario == Init /\ [][NextScenario]_vars

\* ------------------------------------------------- concurrent callers
\* The methods take no lock, so several callers of one MockLedger interleave
\* between the dictionary operations of a method: a balance check, the read
\* and the write of `accounts[k] -= v`, the read and the write of
\* `accounts[k] = accounts.get(k, 0) + v`, a pop, a store, an append.

\* the accounts present when the callers start
ConcAccounts == [n \in Names |-> MaxAmount]

InitConc ==
    /\ InitNegotiator
    /\ InitBandits
    /\ InitAgents
    /\ th = [t \in Threads |-> Idle(0)]
    /\ settled = {}
    /\ accounts = ConcAccounts
    /\ transaction_history = <<>>
    /\ locked_funds = <<>>
    /\ now = 0
    /\ last = Call("init", NoLock, "None")

\* the caller's record after its call returned (or raised)
Done(me, ret) == [me EXCEPT !.pc = "idle", !.ret = ret]

\* a caller enters transfer(sender, receiver, amount)
BeginTransfer(t, sender, receiver, amount) ==
    /\ th[t].pc = "idle" /\ th[t].calls < MaxCalls
    /\ th' = [th EXCEPT ![t] = [Idle(th[t].calls + 1) EXCEPT
                  !.pc = "transfer_check", !.a = sender, !.b = receiver, !.amount = amount]]
    /\ UNCHANGED <<accounts, locked_funds, transaction_history, now, last, settled, aiVars>>

\* a caller enters lock_funds(agent_name, amount, purpose)
BeginLock(t, agent_name, amount, purpose) ==
    /\ th[t].pc = "idle" /\ th[t].calls < MaxCalls
    /\ th' = [th EXCEPT ![t] = [Idle(th[t].calls + 1) EXCEPT
                  !.pc = "lock_check", !.a = agent_name, !.amount = amount,
                  !.purpose = purpose]]
    /\ UNCHANGED <<accounts, locked_funds, transaction_history, now, last, settled, aiVars>>

\* a caller enters release_funds(lock_id, to_agent)
BeginRelease(t, lock_id, to_agent) ==
    /\ th[t].pc = "idle" /\ th[t].calls < MaxCalls
    /\ th' = [th EXCEPT ![t] = [Idle(th[t].calls + 1) EXCEPT
                  !.pc = "release_check", !.lock = lock_id, !.b = to_agent]]
    /\ UNCHANGED <<accounts, locked_funds, transaction_history, now, last, settled, aiVars>>

\* a caller enters return_locked_funds(lock_id)
BeginReturn(t, lock_id) ==
    /\ th[t].pc = "idle" /\ th[t].calls < MaxCalls
    /\ th' = [th EXCEPT ![t] = [Idle(th[t].calls + 1) EXCEPT
                  !.pc = "return_check", !.lock = lock_id]]
    /\ UNCHANGED <<accounts, locked_funds, transaction_history, now, last, settled, aiVars>>

\* if self.accounts.get(name, 0) >= amount:   (transfer, lock_funds)
CheckFunds(t) ==
    LET me == th[t] IN
    /\ me.pc \in {"transfer_check", "lock_check"}
    /\ th' = [th EXCEPT ![t] =
                IF HasFunds(accounts, me.a, me.amount)
                THEN [me EXCEPT !.pc = IF me.pc = "transfer_check" THEN "transfer_read"
                                                                    ELSE "lock_read"]
                ELSE Done(me, IF me.pc = "transfer_check" THEN "False" ELSE "None")]
    /\ UNCHANGED <<accounts, locked_funds, transaction_history, now, last, settled, aiVars>>

\* self.accounts[name] -= amount: the read
ReadDebit(t) ==
    LET me == th[t] IN
    /\ me.pc \in {"transfer_read", "lock_read"}
    /\ th' = [th EXCEPT ![t] =
                IF me.a \in DOMAIN accounts
                THEN [me EXCEPT !.tmp = accounts[me.a],
                                !.pc = IF me.pc = "transfer_read" THEN "transfer_write"
                                                                   ELSE "lock_write"]
                ELSE Done(me, "KeyError")]
    /\ UNCHANGED <<accounts, locked_funds, transaction_history, now, last, settled, aiVars>>

\* self.accounts[name] -= amount: the write
WriteDebit(t) ==
    LET me == th[t] IN
    /\ me.pc \in {"transfer_write", "lock_write"}
    /\ accounts' = Put(accounts, me.a, me.tmp - me.amount)
    /\ th' = [th EXCEPT ![t] =
                [me EXCEPT !.pc = IF me.pc = "transfer_write" THEN "transfer_read2"
                                                               ELSE "lock_store"]]
    /\ UNCHANGED <<locked_funds, transaction_history, now, last, settled, aiVars>>

\* self.locked_funds[lock_id] = {...}; return lock_id
StoreLock(t) ==
    LET me == th[t] IN
    /\ me.pc = "lock_store"
    /\ locked_funds' = Put(locked_funds, LockId(now, me.purpose),
            [agent |-> me.a, amount |-> me.amount, purpose |-> me.purpose,
             timestamp |-> now])
    /\ th' = [th EXCEPT ![t] = Done([me EXCEPT !.lock = LockId(now, me.purpose)], "lock_id")]
    /\ UNCHANGED <<accounts, transaction_history, now, last, settled, aiVars>>

\* self.accounts[to] = self.accounts.get(to, 0) + amount: the read
\* (transfer, release_funds)
ReadCredit(t) ==
    LET me == th[t] IN
    /\ me.pc \in {"transfer_read2", "release_read"}
    /\ th' = [th EXCEPT ![t] =
                [me EXCEPT !.tmp = Get(accounts, me.b, DefaultBalance),
                           !.pc = IF me.pc = "transfer_read2" THEN "transfer_write2"
                                                               ELSE "release_write"]]
    /\ UNCHANGED <<accounts, locked_funds, transaction_history, now, last, settled, aiVars>>

\* self.accounts[locked['agent']] += locked['amount']: the read
ReadOwner(t) ==
    LET me == th[t] IN
    /\ me.pc = "return_read"
    /\ th' = [th EXCEPT ![t] =
                IF me.b \in DOMAIN accounts
                THEN [me EXCEPT !.tmp = accounts[me.b], !.pc = "return_write"]
                ELSE Done(me, "KeyError")]
    /\ UNCHANGED <<accounts, locked_funds, transaction_history, now, last, settled, aiVars>>

\* the write of a credit (transfer, release_funds, return_locked_funds)
WriteCredit(t) ==
    LET me == th[t] IN
    /\ me.pc \in {"transfer_write2", "release_write", "return_write"}
    /\ accounts' = Put(accounts, me.b, me.tmp + me.amount)
    /\ th' = [th EXCEPT ![t] = IF me.pc = "transfer_write2"
                               THEN [me EXCEPT !.pc = "transfer_append"]
                               ELSE Done(me, "True")]
    /\ UNCHANGED <<locked_funds, transaction_history, now, last, settled, aiVars>>

\* self.transaction_history.append(tx); return True
AppendTx(t) ==
    LET me == th[t] IN
    /\ me.pc = "transfer_append"
    /\ transaction_history' = AppendRecord(transaction_history,
            Transaction(me.a, me.b, me.amount, "clean_data"))
    /\ th' = [th EXCEPT ![t] = Done(me, "True")]
    /\ UNCHANGED <<accounts, locked_funds, now, last, settled, aiVars>>

\* if lock_id in self.locked_funds:   (release_funds, return_locked_funds)
CheckLock(t) ==
    LET me == th[t] IN
    /\ me.pc \in {"release_check", "return_check"}
    /\ th' = [th EXCEPT ![t] =
                IF me.lock \in DOMAIN locked_funds
                THEN [me EXCEPT !.pc = IF me.pc = "release_check" THEN "release_pop"
                                                                   ELSE "return_pop"]
                ELSE Done(me, "False")]
    /\ UNCHANGED <<accounts, locked_funds, transaction_history, now, last, settled, aiVars>>

\* locked = self.locked_funds.pop(lock_id)
PopLock(t) ==
    LET me == th[t] IN
    /\ me.pc \in {"release_pop", "return_pop"}
    /\ IF me.lock \in DOMAIN locked_funds
       THEN /\ locked_funds' = Pop(locked_funds, me.lock)
            /\ th' = [th EXCEPT ![t] =
                        IF me.pc = "release_pop"
                        THEN [me EXCEPT !.amount = locked_funds[me.lock].amount,
                                        !.pc = "release_read"]
                        ELSE [me EXCEPT !.amount = locked_funds[me.lock].amount,
                                        !.b = locked_funds[me.lock].agent,
                                        !.pc = "return_read"]]
       ELSE /\ UNCHANGED locked_funds
            /\ th' = [th EXCEPT ![t] = Done(me, "KeyError")]
    /\ UNCHANGED <<accounts, transaction_history, now, last, settled, aiVars>>

NextConc ==
    \/ Tick /\ UNCHANGED <<settled, aiVars>>
    \/ \E t \in Threads, s \in Names, r \in Names, a \in PosAmounts : BeginTransfer(t, s, r, a)
    \/ \E t \in Threads, n \in Names, a \in PosAmounts, p \in Purposes : BeginLock(t, n, a, p)
    \/ \E t \in Threads, l \in LockIds, n \in Names : BeginRelease(t, l, n)
    \/ \E t \in Threads, l \in LockIds : BeginReturn(t, l)
    \/ \E t \in Threads : CheckFunds(t)
    \/ \E t \in Threads : ReadDebit(t)
    \/ \E t \in Threads : WriteDebit(t)
    \/ \E t \in Threads : StoreLock(t)
    \/ \E t \in Threads : ReadCredit(t)
    \/ \E t \in Threads : ReadOwner(t)
    \/ \E t \in Threads : WriteCredit(t)
    \/ \E t \in Threads : AppendTx(t)
    \/ \E t \in Threads : CheckLock(t)
    \/ \E t \in Threads : PopLock(t)

SpecConc == InitConc /\ [][NextConc]_vars

\* no caller is inside a call
Quiescent == \A t \in Threads : th[t].pc = "idle"


\* ------------------------------------------------------------- negotiator
\* src/ai/rl_negotiation.py.  Reputations are written in tenths (4.8 is 48),
\* an urgency is the fraction num / den, and action values and rewards are
\* exact decimals written as multiples of 1 / Scale: a value has at most one
\* decimal digit more than the number of updates made, so none is lost.
Scale == 10 ^ (MaxUpdates + 1)

\* self.actions, in the order of the list
Actions == <<"accept", "reject", "counter_low", "counter_high">>
ActionSet == {Actions[i] : i \in 1 .. Len(Actions)}

ServiceTypes == {"clean_data"}          \* service_type
InitialOffers == {1, 4, 5, 6}           \* initial_offer
MarketPrices == {5}                     \* market_price (clean_data costs 5)
Reputations == {29, 50}                 \* agent_reputation, in tenths
RoundLimits == 0 .. MaxRounds           \* max_rounds

\* next_state = None
NoState == "None"

Larger(a, b) == IF a >= b THEN a ELSE b

\* "low" if price_ratio < 0.8 else "fair" if price_ratio < 1.2 else "high",
\* price_ratio = offered_price / max(market_price, 1)
price_category(offered_price, market_price) ==
    LET m == Larger(market_price, 1)
    IN IF 10 * offered_price < 8 * m THEN "low"
       ELSE IF 10 * offered_price < 12 * m THEN "fair" ELSE "high"

\* "low" if agent_reputation < 3.0 else "medium" if agent_reputation < 4.5 else "high"
reputation_category(agent_reputation) ==
    IF agent_reputation < 30 THEN "low"
    ELSE IF agent_reputation < 45 THEN "medium" ELSE "high"

\* the urgency buckets with 0.3 counted as low and 0.7 as medium
UrgencyCategoryClosed(urgency) ==
    IF 10 * urgency.num <= 3 * urgency.den THEN "low"
    ELSE IF 10 * urgency.num <= 7 * urgency.den THEN "medium" ELSE "high"

\* "low" if urgency < 0.3 else "medium" if urgency < 0.7 else "high"
urgency_category(urgency) ==
    IF 10 * urgency.num < 3 * urgency.den THEN "low"
    ELSE IF 10 * urgency.num < 7 * urgency.den THEN "medium" ELSE "high"

\* f"{service_type}_{price_category}_{reputation_category}_{urgency_category}"
get_state(service_type, offered_price, market_price, agent_reputation, urgency) ==
    service_type \o "_" \o price_category(offered_price, market_price)
                 \o "_" \o reputation_category(agent_reputation)
                 \o "_" \o urgency_category(urgency)

\* {action: 0.0 for action in self.actions}
ZeroRow == [a \in ActionSet |-> 0]

\* a row of zeros written whether or not the state has one
EnsureStateAfresh(table, state) == Put(table, state, ZeroRow)

\* if state not in self.q_table: self.q_table[state] = {...}
EnsureState(table, state) == IF state \in DOMAIN table THEN table ELSE Put(table, state, ZeroRow)

\* the last of the actions of maximal value
GreedyLast(row) ==
    Actions[CHOOSE i \in 1 .. Len(Actions) :
                /\ \A j \in 1 .. Len(Actions) : row[Actions[j]] <= row[Actions[i]]
                /\ \A j \in (i + 1) .. Len(Actions) : row[Actions[j]] < row[Actions[i]]]

\* max(self.q_table[state], key=self.q_table[state].get): the first action, in
\* the order of the row's keys, whose value no other exceeds
Greedy(row) ==
    Actions[CHOOSE i \in 1 .. Len(Actions) :
                /\ \A j \in 1 .. Len(Actions) : row[Actions[j]] <= row[Actions[i]]
                /\ \A j \in 1 .. (i - 1) : row[Actions[j]] < row[Actions[i]]]

\* get_action returning the random choice whether or not it explores
GetActionAtRandom(row, explore, choice) == choice

\* get_action after the row exists: random.choice(self.actions) when
\* exploring, the greedy action otherwise
get_action(row, explore, choice) == IF explore THEN choice ELSE Greedy(row)

\* max(self.q_table[next_state].values())
MaxValue(row) == CHOOSE v \in {row[a] : a \in ActionSet} : \A a \in ActionSet : row[a] <= v

\* update_q_value writing the new value to every action of the state
UpdateWholeRow(table, state, action, reward, next_state) ==
    LET t1 == EnsureState(table, state)
        current_q == t1[state][action]
        new_q == current_q + (LearningRateTenths * (10 * reward - 10 * current_q)) \div 100
    IN [t1 EXCEPT ![state] = [a \in ActionSet |-> new_q]]

\* update_q_value: the table after the update
update_q_value(table, state, action, reward, next_state) ==
    LET t1 == EnsureState(table, state)
        t2 == IF next_state # NoState THEN EnsureState(t1, next_state) ELSE t1
        current_q == t2[state][action]
        max_next_q == IF next_state # NoState THEN MaxValue(t2[next_state]) ELSE 0
        new_q == current_q + (LearningRateTenths *
                    (10 * reward + DiscountTenths * max_next_q - 10 * current_q)) \div 100
    IN [t2 EXCEPT ![state][action] = new_q]

\* calculate_reward with the ratio 1.2 counted as a great deal
RewardGreatFromBoundary(final_price, market_price, deal_made) ==
    IF ~deal_made THEN 0 - Scale
    ELSE IF 10 * final_price >= 12 * market_price THEN Scale
    ELSE IF final_price > market_price THEN Scale \div 2
    ELSE IF 10 * final_price > 8 * market_price THEN 0
    ELSE 0 - (Scale \div 2)

\* calculate_reward with the ratio 0.8 counted as a fair deal
RewardFairFromBoundary(final_price, market_price, deal_made) ==
    IF ~deal_made THEN 0 - Scale
    ELSE IF 10 * final_price > 12 * market_price THEN Scale
    ELSE IF final_price > market_price THEN Scale \div 2
    ELSE IF 10 * final_price >= 8 * market_price THEN 0
    ELSE 0 - (Scale \div 2)

\* calculate_reward (market_price is not 0)
calculate_reward(final_price, market_price, deal_made) ==
    IF ~deal_made THEN 0 - Scale
    ELSE IF 10 * final_price > 12 * market_price THEN Scale
    ELSE IF final_price > market_price THEN Scale \div 2
    ELSE IF 10 * final_price > 8 * market_price THEN 0
    ELSE 0 - (Scale \div 2)

\* reward = -0.1
CounterReward == 0 - (Scale \div 10)

\* a counter_low without the floor of 1
CounterLowNoFloor(current_offer) == (8 * current_offer) \div 10

\* max(1, int(current_offer * 0.8))   (current_offer >= 0)
CounterLow(current_offer) == Larger(1, (8 * current_offer) \div 10)

\* int(current_offer * 1.2)   (current_offer >= 0)
CounterHigh(current_offer) == (12 * current_offer) \div 10

\* urgency=round_num/max_rounds and urgency=1.0
Urgency(num, den) == [num |-> num, den |-> den]

\* the loop has run through range(max_rounds + 1)
InRangeInclusive(round_num, max_rounds) == round_num <= max_rounds

\* for round_num in range(max_rounds): there is a pass for round_num
InRange(round_num, max_rounds) == round_num < max_rounds

\* the price of a return left at 0
ReturnNoPrice(call, outcome, price) ==
    [call EXCEPT !.pc = "returned", !.outcome = outcome, !.price = 0]

\* return outcome, price   (inside the loop)
Return(call, outcome, price) ==
    [call EXCEPT !.pc = "returned", !.outcome = outcome, !.price = price]

\* the rounds used up ending in a rejection
FallbackRejects(call) == [call EXCEPT !.pc = "returned", !.outcome = "reject", !.price = 0]

\* return "accept", current_offer   (after the loop)
Fallback(call) ==
    [call EXCEPT !.pc = "returned", !.outcome = "accept", !.price = call.current_offer]

\* final_price / market_price raises ZeroDivisionError: the call ends there
Raise(call) ==
    [call EXCEPT !.pc = "returned", !.outcome = "ZeroDivisionError", !.price = 0]

\* a decision and its update, as noted for the call in progress
Decision(state, action, reward, offer, chosen) ==
    [state |-> state, action |-> action, reward |-> reward, offer |-> offer,
     chosen |-> chosen]

\* negotiate is entered
Negotiate(service_type, initial_offer, market_price, agent_reputation, max_rounds) ==
    /\ neg.pc \in {"idle", "returned"}
    /\ updates + max_rounds + 1 <= MaxUpdates
    /\ neg' = [pc |-> "loop", service_type |-> service_type,
               initial_offer |-> initial_offer, market_price |-> market_price,
               agent_reputation |-> agent_reputation, max_rounds |-> max_rounds,
               current_offer |-> initial_offer, round_num |-> 0,
               outcome |-> "None", price |-> 0]
    /\ taken' = <<>>
    /\ UNCHANGED <<q_table, updates, answer, ledgerSide, banditVars>>

\* one pass of `for round_num in range(max_rounds)`
Round(explore, choice) ==
    /\ neg.pc = "loop"
    /\ InRange(neg.round_num, neg.max_rounds)
    /\ LET state == get_state(neg.service_type, neg.current_offer, neg.market_price,
                              neg.agent_reputation, Urgency(neg.round_num, neg.max_rounds))
           table == EnsureState(q_table, state)
           action == get_action(table[state], explore, choice)
           reward == CASE action = "accept" ->
                            calculate_reward(neg.current_offer, neg.market_price, TRUE)
                       [] action = "reject" ->
                            calculate_reward(neg.current_offer, neg.market_price, FALSE)
                       [] OTHER -> CounterReward
       IN IF action = "accept" /\ neg.market_price = 0
          THEN \* calculate_reward divides by market_price, before any update
               /\ q_table' = table
               /\ neg' = Raise(neg)
               /\ UNCHANGED <<taken, updates>>
          ELSE /\ q_table' = update_q_value(table, state, action, reward, NoState)
               /\ taken' = Append(taken,
                              Decision(state, action, reward, neg.current_offer, TRUE))
               /\ neg' = CASE action = "accept" ->
                                Return(neg, "accept", neg.current_offer)
                           [] action = "reject" -> Return(neg, "reject", 0)
                           [] action = "counter_low" ->
                                [neg EXCEPT !.current_offer = CounterLow(neg.current_offer),
                                            !.round_num = neg.round_num + 1]
                           [] action = "counter_high" ->
                                [neg EXCEPT !.current_offer = CounterHigh(neg.current_offer),
                                            !.round_num = neg.round_num + 1]
               /\ updates' = updates + 1
    /\ UNCHANGED <<answer, ledgerSide, banditVars>>

\* the rounds are used up: accept the current offer
ForcedAccept ==
    /\ neg.pc = "loop"
    /\ ~InRange(neg.round_num, neg.max_rounds)
    /\ IF neg.market_price = 0
       THEN \* calculate_reward divides by market_price, before the update
            /\ neg' = Raise(neg)
            /\ UNCHANGED <<q_table, taken, updates>>
       ELSE LET final_state == get_state(neg.service_type, neg.current_offer,
                                         neg.market_price, neg.agent_reputation,
                                         Urgency(1, 1))
                reward == calculate_reward(neg.current_offer, neg.market_price, TRUE)
            IN /\ q_table' = update_q_value(q_table, final_state, "accept", reward, NoState)
               /\ taken' = Append(taken,
                              Decision(final_state, "accept", reward, neg.current_offer,
                                       FALSE))
               /\ neg' = Fallback(neg)
               /\ updates' = updates + 1
    /\ UNCHANGED <<answer, ledgerSide, banditVars>>

\* The negotiator called again and again, one call at a time.
NextNeg ==
    \/ \E sv \in ServiceTypes, o \in InitialOffers, m \in MarketPrices,
          r \in Reputations, mr \in RoundLimits : Negotiate(sv, o, m, r, mr)
    \/ \E explore \in BOOLEAN, choice \in ActionSet : Round(explore, choice)
    \/ ForcedAccept

SpecNeg == Init /\ [][NextNeg]_vars

\* The negotiator called for an agent of reputation 5.0.  negotiate is sequential code: a call that can
\* take its next step takes it.
NextNegFair ==
    \/ \E sv \in ServiceTypes, o \in InitialOffers, m \in MarketPrices, mr \in RoundLimits :
          Negotiate(sv, o, m, InitialReputation, mr)
    \/ \E explore \in BOOLEAN, choice \in ActionSet : Round(explore, choice)
    \/ ForcedAccept

SpecNegFair ==
    /\ Init /\ [][NextNegFair]_vars
    /\ WF_vars(\E explore \in BOOLEAN, choice \in ActionSet : Round(explore, choice))
    /\ WF_vars(ForcedAccept)

\* The negotiator built with epsilon = 0: random.random() < self.epsilon is
\* false whatever is drawn, so no round takes the exploration branch.
NextGreedy ==
    \/ \E sv \in ServiceTypes, o \in InitialOffers, m \in MarketPrices,
          r \in Reputations, mr \in RoundLimits : Negotiate(sv, o, m, r, mr)
    \/ \E choice \in ActionSet : Round(FALSE, choice)
    \/ ForcedAccept

SpecGreedy == Init /\ [][NextGreedy]_vars

\* The negotiator called with small offers and market prices, 0 among them,
\* for an agent of reputation 5.0.
SmallOffers == {0, 1, 6}                \* initial_offer
SmallPrices == {0, 1}                   \* market_price

NextOffers ==
    \/ \E sv \in ServiceTypes, o \in SmallOffers, m \in SmallPrices, mr \in RoundLimits :
          Negotiate(sv, o, m, InitialReputation, mr)
    \/ \E explore \in BOOLEAN, choice \in ActionSet : Round(explore, choice)
    \/ ForcedAccept

SpecOffers == Init /\ [][NextOffers]_vars

\* ---------------------------------------------- direct calls of get_state
\* get_state is also called from outside negotiate (src/main.py:129), with
\* any offer, price, reputation and urgency.
KeyServices == {"clean_data", "clean"}
KeyOffers == 0 .. 7
KeyMarkets == {0, 5}
KeyReputations == {29, 30, 44, 45}
KeyUrgencies == {Urgency(0, 1), Urgency(29, 100), Urgency(3, 10), Urgency(1, 2),
                 Urgency(69, 100), Urgency(7, 10), Urgency(1, 1)}

GetState(service_type, offered_price, market_price, agent_reputation, urgency) ==
    /\ answer' = [op |-> "get_state",
                  args |-> [service_type |-> service_type, offered_price |-> offered_price,
                            market_price |-> market_price,
                            agent_reputation |-> agent_reputation, urgency |-> urgency],
                  ret |-> get_state(service_type, offered_price, market_price,
                                    agent_reputation, urgency)]
    /\ UNCHANGED <<q_table, neg, taken, updates, ledgerSide, banditVars>>

NextKeys ==
    \E sv \in KeyServices, o \in KeyOffers, m \in KeyMarkets, r \in KeyReputations,
       u \in KeyUrgencies : GetState(sv, o, m, r, u)

SpecKeys == Init /\ [][NextKeys]_vars

\* ------------------------ direct calls of get_action and update_q_value
\* Both methods are public: src/main.py:129-135 calls update_q_value itself,
\* with the key get_state returns for the default urgency; the method also
\* takes a next state.
QStates == {get_state("clean_data", o, 5, InitialReputation, Urgency(1, 2)) : o \in {5, 6}}
QNextStates == QStates \cup {NoState}   \* next_state: a key, or None
QRewards == {0 - Scale, Scale \div 2}   \* reward: -1.0 and 0.5

\* a value bootstrapped from another one has two more decimals than it: the
\* directly called updates stop while the values are still exact in Scale
ExactAfter(n) == 2 * n <= MaxUpdates + 1

\* get_action(state, explore): the row is created before anything is chosen
GetAction(state, explore, choice) ==
    /\ q_table' = EnsureState(q_table, state)
    /\ answer' = [op |-> "get_action",
                  args |-> [state |-> state, explore |-> explore],
                  ret |-> get_action(q_table'[state], explore, choice)]
    /\ UNCHANGED <<neg, taken, updates, ledgerSide, banditVars>>

\* update_q_value(state, action, reward, next_state)
UpdateQValue(state, action, reward, next_state) ==
    /\ ExactAfter(updates + 1)
    /\ q_table' = update_q_value(q_table, state, action, reward, next_state)
    /\ updates' = updates + 1
    /\ answer' = [op |-> "update_q_value",
                  args |-> [state |-> state, action |-> action, reward |-> reward,
                            next_state |-> next_state],
                  ret |-> "None"]
    /\ UNCHANGED <<neg, taken, ledgerSide, banditVars>>

NextTable ==
    \/ \E s \in QStates, e \in BOOLEAN, c \in ActionSet : GetAction(s, e, c)
    \/ \E s \in QStates, a \in ActionSet, r \in QRewards, ns \in QNextStates :
           UpdateQValue(s, a, r, ns)

SpecTable == Init /\ [][NextTable]_vars

\* ------------------------------------ the selectors (bandit_selection.py)
\* Rewards are kept in quarters, which floats add and compare exactly:
\* -0.5 (a failed request, src/main.py:153), 0.5 and 0.75.
BanditRewards == {0 - 2, 2, 3}

\* the agent argument: an arm, or a party that was not in the list the
\* selector was built with
Counterparties == ArmSet \cup {"Client_X"}

\* cumulative_reward[a] / max(selection_count[a], 1) >
\* cumulative_reward[b] / max(selection_count[b], 1)
AverageAbove(a, b) ==
    cumulative_reward[a] * Larger(selection_count[b], 1)
        > cumulative_reward[b] * Larger(selection_count[a], 1)

\* max(avg_rewards, key=avg_rewards.get): the first arm, in list order, whose
\* average no other exceeds
Exploit ==
    Arms[CHOOSE i \in 1 .. Len(Arms) :
             /\ \A j \in 1 .. Len(Arms) : ~AverageAbove(Arms[j], Arms[i])
             /\ \A j \in 1 .. (i - 1) : AverageAbove(Arms[i], Arms[j])]

\* select_epsilon_greedy(epsilon): below is random.random() < epsilon, choice
\* what random.choice(self.agents) returns
SelectEpsilonGreedy(below, choice) ==
    /\ answer' = [op |-> "select_epsilon_greedy",
                  args |-> [below |-> below],
                  ret |-> IF below \/ total_selections = 0 THEN choice ELSE Exploit]
    /\ UNCHANGED <<negVars, banditVars, ledgerSide>>

\* the place of an arm in self.agents
ArmPlace(a) == CHOOSE i \in 1 .. Len(Arms) : Arms[i] = a

\* the arms never played
Unplayed == {a \in ArmSet : selection_count[a] = 0}

\* Both arms played: b's UCB value avg + c * sqrt(log(total) / count), c = 2.0,
\* is above a's, or equal to it with b earlier in the list, whatever the
\* square roots and logarithms are: b's average is not below and its count
\* not above.
SurelyAhead(b, a) ==
    /\ b # a
    /\ ~AverageAbove(a, b)
    /\ selection_count[b] <= selection_count[a]
    /\ \/ AverageAbove(b, a)
       \/ selection_count[b] < selection_count[a] /\ total_selections > 1
       \/ ArmPlace(b) < ArmPlace(a)

\* select_ucb1 returning any arm, played or not
UcbAnyArm == ArmSet

\* what select_ucb1 can return: any arm before the first update; the first
\* unplayed arm (value inf) while there is one; otherwise the arm of maximal
\* UCB value, which is one no other arm is surely ahead of
UcbArms ==
    IF total_selections = 0 THEN ArmSet
    ELSE IF Unplayed # {}
         THEN {Arms[CHOOSE i \in 1 .. Len(Arms) :
                        /\ Arms[i] \in Unplayed
                        /\ \A j \in 1 .. (i - 1) : Arms[j] \notin Unplayed]}
         ELSE {a \in ArmSet : \A b \in ArmSet : ~SurelyAhead(b, a)}

\* select_ucb1()
SelectUcb1(choice) ==
    /\ choice \in UcbArms
    /\ answer' = [op |-> "select_ucb1", args |-> <<>>, ret |-> choice]
    /\ UNCHANGED <<negVars, banditVars, ledgerSide>>

\* sum(1 for r in self.rewards[agent] if r > 0.5)
Successes(agent) ==
    Cardinality({i \in 1 .. Len(rewards[agent]) : rewards[agent][i] > SuccessThreshold})

\* the two arguments of np.random.beta for an arm
BetaParameters(agent) ==
    LET successes == Larger(1, Successes(agent))
        failures == Larger(1, Len(rewards[agent]) - successes + 1)
    IN <<successes, failures>>

\* select_thompson_sampling(): every arm's sample can be the largest
SelectThompson(choice) ==
    /\ answer' = [op |-> "select_thompson_sampling",
                  args |-> [a \in ArmSet |-> BetaParameters(a)],
                  ret |-> choice]
    /\ UNCHANGED <<negVars, banditVars, ledgerSide>>

\* update_reward adding the reward to every arm's sum
AddToEveryArm(sums, agent, reward) == [a \in DOMAIN sums |-> sums[a] + reward]

\* self.cumulative_reward[agent] += reward
AddReward(sums, agent, reward) == [sums EXCEPT ![agent] = @ + reward]

\* update_reward(agent, reward): self.rewards[agent] raises KeyError, before
\* anything is written, for an agent the dictionaries do not have
UpdateReward(agent, reward) ==
    IF agent \in DOMAIN rewards
    THEN /\ total_selections < MaxPulls
         /\ rewards' = [rewards EXCEPT ![agent] = Append(@, reward)]
         /\ cumulative_reward' = AddReward(cumulative_reward, agent, reward)
         /\ selection_count' = [selection_count EXCEPT ![agent] = @ + 1]
         /\ total_selections' = total_selections + 1
         /\ answer' = [op |-> "update_reward",
                       args |-> [agent |-> agent, reward |-> reward], ret |-> "None"]
         /\ UNCHANGED <<negVars, weights, history, ledgerSide>>
    ELSE /\ answer' = [op |-> "update_reward",
                       args |-> [agent |-> agent, reward |-> reward], ret |-> "KeyError"]
         /\ UNCHANGED <<negVars, banditVars, ledgerSide>>

\* The context-free selector, every method called in any order.
NextBandit ==
    \/ \E below \in BOOLEAN, choice \in ArmSet : SelectEpsilonGreedy(below, choice)
    \/ \E choice \in ArmSet : SelectUcb1(choice)
    \/ \E choice \in ArmSet : SelectThompson(choice)
    \/ \E agent \in Counterparties, reward \in BanditRewards : UpdateReward(agent, reward)

SpecBandit == Init /\ [][NextBandit]_vars

\* The context-free selector used by UCB1 alone: every selection is followed
\* by the update of the arm it returned.
NextUcb ==
    \/ answer.op # "select_ucb1" /\ \E choice \in ArmSet : SelectUcb1(choice)
    \/ answer.op = "select_ucb1" /\ \E reward \in BanditRewards :
           UpdateReward(answer.ret, reward)

SpecUcb == Init /\ [][NextUcb]_vars

\* ------------------------------------------- the contextual selector
\* service_complexity, in tenths
ServiceComplexity(service_type) ==
    CASE service_type = "clean_data" -> 3
      [] service_type = "translate_text" -> 5
      [] service_type = "analyze_sentiment" -> 6
      [] service_type = "run_analysis" -> 8
      [] service_type = "generate_report" -> 9
      [] service_type = "optimize_model" -> 10
      [] OTHER -> 5

\* get_context: the vector [complexity, urgency, budget / 100, time of day],
\* in tenths; urgency and time_of_day are given in tenths, budget in tokens
get_context(service_type, urgency, budget, time_of_day) ==
    <<ServiceComplexity(service_type), urgency, budget \div 10, time_of_day>>

\* contexts and rewards passed to update_weights: a reward of 0.7 after a
\* served request and of -0.5 after a failed one, in tenths
Contexts == {get_context("clean_data", 5, 10, 0), get_context("translate_text", 10, 50, 5)}
ContextRewards == {0 - 5, 7}

\* np.dot(self.weights[agent], context), in units of 1 / WeightScale
predict_reward(w, context) ==
    (w[1] \div 10) * context[1] + (w[2] \div 10) * context[2]
        + (w[3] \div 10) * context[3] + (w[4] \div 10) * context[4]

\* reward - predicted, in units of 1 / WeightScale
Error(w, context, reward) == reward * (WeightScale \div 10) - predict_reward(w, context)

\* self.weights[agent] += learning_rate * error * context, learning_rate = 0.01
Step(w, context, reward) ==
    [i \in 1 .. 4 |-> w[i] + (Error(w, context, reward) \div 1000) * context[i]]

\* update_weights(agent, context, reward): predict_reward raises KeyError,
\* before anything is written, for an agent self.weights does not have
UpdateWeights(agent, context, reward) ==
    IF agent \in DOMAIN weights
    THEN /\ Len(history) < MaxWeightUpdates
         /\ weights' = [weights EXCEPT ![agent] = Step(@, context, reward)]
         /\ history' = Append(history,
                          [agent |-> agent, context |-> context, reward |-> reward,
                           error |-> Error(weights[agent], context, reward),
                           timestamp |-> now])
         /\ answer' = [op |-> "update_weights",
                       args |-> [agent |-> agent, context |-> context, reward |-> reward],
                       ret |-> "None"]
         /\ UNCHANGED <<negVars, armVars, ledgerSide>>
    ELSE /\ answer' = [op |-> "update_weights",
                       args |-> [agent |-> agent, context |-> context, reward |-> reward],
                       ret |-> "KeyError"]
         /\ UNCHANGED <<negVars, banditVars, ledgerSide>>

\* the two selectors after construction, whatever weights were drawn
InitLearn ==
    /\ InitNegotiator
    /\ InitArms
    /\ InitAgents
    /\ \E w \in {DrawnWeights, OtherDrawnWeights} : weights = [a \in ArmSet |-> w]
    /\ history = <<>>
    /\ th = [t \in Threads |-> Idle(0)]
    /\ settled = {}
    /\ accounts = <<>>
    /\ transaction_history = <<>>
    /\ locked_funds = <<>>
    /\ now = 0
    /\ last = Call("init", NoLock, "None")

\* The learning updates of both selectors, called for any counterparty; as in
\* the rounds of src/main.py, no more rewards are recorded than weight updates
\* are made.
NextLearn ==
    \/ /\ total_selections < MaxWeightUpdates
       /\ \E agent \in Counterparties, reward \in BanditRewards : UpdateReward(agent, reward)
    \/ \E agent \in Counterparties, context \in Contexts, reward \in ContextRewards :
           UpdateWeights(agent, context, reward)

SpecLearn == InitLearn /\ [][NextLearn]_vars

\* ------------------------------------------------ the agents (agent_base.py)
\* self.services of agent_a, agent_b and agent_c: service -> base price
ServicesOf ==
    [a \in ArmSet |->
        CASE a = "DataProcessor_A" ->
                  [clean_data |-> 5, validate_data |-> 3, transform_data |-> 7]
          [] a = "Translator_B" ->
                  [translate_text |-> 4, summarize_text |-> 6, analyze_sentiment |-> 5]
          [] a = "Computer_C" ->
                  [run_analysis |-> 8, generate_report |-> 10, optimize_model |-> 15]]

\* self.reputation of agent_a, agent_b and agent_c, in tenths
ReputationOf ==
    [a \in ArmSet |-> CASE a = "DataProcessor_A" -> 48
                        [] a = "Translator_B" -> 46
                        [] a = "Computer_C" -> 44]

\* the accounts of ledger_instance
MarketAccounts ==
    [n \in ArmSet \cup {"Client_X"} |-> IF n = "Client_X" THEN 2 * OpeningBalance
                                                        ELSE OpeningBalance]

\* the modules are imported: the ledger with its accounts, the agents, the
\* negotiator and the selectors
InitMarket ==
    /\ InitNegotiator
    /\ InitBandits
    /\ InitAgents
    /\ th = [t \in Threads |-> Idle(0)]
    /\ settled = {}
    /\ accounts = MarketAccounts
    /\ transaction_history = <<>>
    /\ locked_funds = <<>>
    /\ now = 0
    /\ last = Call("init", NoLock, "None")

\* get_dynamic_price: int(base_price * (1 + load * 0.1) * 1.0); nothing raises
\* the load above 0, the multiplier is written for whole loads
get_dynamic_price(agent, service_type) ==
    (Get(ServicesOf[agent], service_type, 0) * (10 + agents[agent].load)) \div 10

\* a provider that takes whatever is offered
AcceptsAnyPrice(offered_price, actual_price) == TRUE

\* request.offered_price >= actual_price * 0.8
AcceptsPrice(offered_price, actual_price) == 10 * offered_price >= 8 * actual_price

\* ServiceRequest, with the agent that receives it
ServiceRequest(provider, sender, service_type, offered_price) ==
    [provider |-> provider, sender |-> sender, service_type |-> service_type,
     offered_price |-> offered_price]

\* ServiceResponse; raised names the exception when handle_request returns
\* no response
ServiceResponse(success, message, cost) ==
    [success |-> success, message |-> message, cost |-> cost, raised |-> "None"]

\* self.service_history.append(...); self.load = max(0, self.load - 1)
Served(agent, service_type, offered_price, sender) ==
    [load |-> Larger(0, agent.load - 1),
     service_history |-> Append(agent.service_history,
                                [service |-> service_type, price |-> offered_price,
                                 client |-> sender, timestamp |-> now])]

\* handle_request of the agent `provider`
HandleRequest(provider, sender, service_type, offered_price) ==
    LET request == ServiceRequest(provider, sender, service_type, offered_price)
        actual_price == get_dynamic_price(provider, service_type)
        Respond(response) ==
            answer' = [op |-> "handle_request", args |-> request, ret |-> response]
    IN /\ IF service_type \notin DOMAIN ServicesOf[provider]
          THEN /\ Respond(ServiceResponse(FALSE, "Service not offered", 0))
               /\ UNCHANGED <<accounts, locked_funds, transaction_history, now, last, th,
                              agents>>
          ELSE IF AcceptsPrice(offered_price, actual_price)
          THEN /\ transfer(sender, provider, offered_price, "None")
               /\ CASE last'.ret = "True" ->
                         /\ agents' = [agents EXCEPT ![provider] =
                                          Served(@, service_type, offered_price, sender)]
                         /\ Respond(ServiceResponse(TRUE, "completed", offered_price))
                    [] last'.ret = "False" ->
                         /\ UNCHANGED agents
                         /\ Respond(ServiceResponse(FALSE,
                                                    "Payment failed - insufficient funds", 0))
                    [] OTHER -> \* the KeyError of transfer passes through
                         /\ UNCHANGED agents
                         /\ Respond([ServiceResponse(FALSE, "None", 0)
                                        EXCEPT !.raised = "KeyError"])
          ELSE /\ Respond(ServiceResponse(FALSE, "Price too low", actual_price))
               /\ UNCHANGED <<accounts, locked_funds, transaction_history, now, last, th,
                              agents>>
       /\ UNCHANGED <<settled, negVars, banditVars>>

\* the agents that receive requests, and who sends them: another agent, the
\* client, the provider itself, a party without an account
Providers == {"DataProcessor_A", "Computer_C"}
Requesters == {"DataProcessor_A", "Translator_B", "Client_X", "Guest"}
RequestedServices == {"clean_data", "generate_report"}
OfferedPrices == {3, 4, 10, 150, 250}

\* The agents asked directly, as the interaction pages of src/ui do.
NextAgent ==
    \E provider \in Providers, sender \in Requesters, service_type \in RequestedServices,
       offered_price \in OfferedPrices :
        HandleRequest(provider, sender, service_type, offered_price) /\ UNCHANGED sim

SpecAgent == InitMarket /\ [][NextAgent]_vars

\* ------------------------------------------- the simulation loop (main.py)
DefaultRounds == 3          \* negotiate(..., max_rounds: int = 3)
Satisfaction == 1           \* random.uniform(0.7, 1.0) drawing 1.0
FailureTenths == 0 - 5      \* the reward -0.5 of a failed request, in tenths

\* the services asked for and the prices offered in the rounds explored: the
\* budget / 100 of the context is then a whole number of tenths
SimServices == {"generate_report", "optimize_model"}
SimOffers == {10, 20}

\* random.randint(int(base_price * 0.5), int(base_price * 1.5))
OfferRange(base_price) == ((5 * base_price) \div 10) .. ((15 * base_price) \div 10)

\* [name for name, agent in agents.items()
\*      if service_type in agent.services and name != sender]
capable_agents(service_type, sender) ==
    {a \in ArmSet : service_type \in DOMAIN ServicesOf[a] /\ a # sender}

\* select_agent without exploring: max(predictions, key=predictions.get), the
\* first agent whose prediction no other exceeds
BestPredicted(context) ==
    Arms[CHOOSE i \in 1 .. Len(Arms) :
            /\ \A j \in 1 .. Len(Arms) :
                   predict_reward(weights[Arms[j]], context)
                       <= predict_reward(weights[Arms[i]], context)
            /\ \A j \in 1 .. (i - 1) :
                   predict_reward(weights[Arms[j]], context)
                       < predict_reward(weights[Arms[i]], context)]

\* select_agent: random.choice(self.agents) when exploring
select_agent(context, explore, choice) == IF explore THEN choice ELSE BestPredicted(context)

\* the round is over: its negotiation was rejected, or the request was
\* handled and the selectors and the negotiator have learnt from it
RoundOver ==
    \/ sim.pc \in {"idle", "rejected"}
    \/ /\ sim.pc = "handled"
       /\ \/ answer.op = "update_q_value"
          \/ answer.op = "update_reward" /\ ~sim.success

\* a round begins: sender, receiver, service and offer are drawn and the
\* contextual selector is asked, its choice replaced by a capable agent when
\* it is not one
BeginRound(sender, receiver, service_type, offered_price, urgency, time_of_day, explore, choice, fallback) ==
    /\ RoundOver
    /\ receiver # sender
    /\ service_type \in DOMAIN ServicesOf[receiver]
    /\ offered_price \in OfferRange(ServicesOf[receiver][service_type])
    /\ fallback \in capable_agents(service_type, sender)
    /\ LET context == get_context(service_type, urgency, offered_price, time_of_day)
           selected_agent == select_agent(context, explore, choice)
           final == IF selected_agent \in capable_agents(service_type, sender)
                    THEN selected_agent ELSE fallback
       IN sim' = [pc |-> "chosen", sender |-> sender, receiver |-> final,
                  service_type |-> service_type, offered_price |-> offered_price,
                  context |-> context, market_price |-> ServicesOf[final][service_type],
                  agent_reputation |-> ReputationOf[final], success |-> FALSE]
    /\ neg' = NoCall
    /\ taken' = <<>>
    /\ UNCHANGED <<accounts, locked_funds, transaction_history, now, last, th, settled,
                   q_table, updates, answer, banditVars, agents>>

\* global_negotiator.negotiate(service_type, offered_price, market_price,
\*                             agent_reputation)
EnterNegotiation ==
    /\ sim.pc = "chosen"
    /\ neg.pc = "idle"
    /\ Negotiate(sim.service_type, sim.offered_price, sim.market_price,
                 sim.agent_reputation, DefaultRounds)

\* the request keeps the price first offered
RequestPriceAsOffered(round, call) == round.offered_price

\* request.offered_price = final_price
RequestPrice(round, call) == call.price

\* negotiate has returned: on accept the receiver handles the request at the
\* final price, otherwise the round is noted as rejected
Settle ==
    /\ sim.pc = "chosen"
    /\ neg.pc = "returned"
    /\ IF neg.outcome = "accept"
       THEN /\ HandleRequest(sim.receiver, sim.sender, sim.service_type,
                             RequestPrice(sim, neg))
            /\ sim' = [sim EXCEPT !.pc = "handled", !.success = answer'.ret.success]
       ELSE /\ sim' = [sim EXCEPT !.pc = "rejected"]
            /\ UNCHANGED <<accounts, locked_funds, transaction_history, now, last, th,
                           settled, negVars, answer, banditVars, agents>>

\* contextual_bandit.update_weights(receiver, context, satisfaction or -0.5)
LearnWeights ==
    /\ sim.pc = "handled"
    /\ answer.op = "handle_request"
    /\ UpdateWeights(sim.receiver, sim.context,
                     IF sim.success THEN 10 * Satisfaction ELSE FailureTenths)

\* service_bandit.update_reward(receiver, satisfaction or -0.5), in quarters
LearnReward ==
    /\ sim.pc = "handled"
    /\ answer.op = "update_weights"
    /\ UpdateReward(sim.receiver, IF sim.success THEN 4 * Satisfaction ELSE 0 - 2)

\* update_q_value(get_state(service_type, response.cost, market_price,
\* agent_reputation), "accept", calculate_reward(response.cost, market_price,
\* True)): the cost of a successful response is the final price
LearnQ ==
    /\ sim.pc = "handled"
    /\ sim.success
    /\ answer.op = "update_reward"
    /\ UpdateQValue(get_state(sim.service_type, neg.price, sim.market_price,
                              sim.agent_reputation, Urgency(1, 2)),
                    "accept", calculate_reward(neg.price, sim.market_price, TRUE), NoState)

\* The rounds of run_simulation, one after the other, while the clock runs
\* (time.sleep(0.5) between two rounds, time.sleep(0.1) in handle_request).
NextSim ==
    \/ \E sender \in ArmSet, receiver \in ArmSet, service_type \in SimServices,
          offered_price \in SimOffers, explore \in BOOLEAN, choice \in ArmSet,
          fallback \in ArmSet :
           BeginRound(sender, receiver, service_type, offered_price, 5, 0,
                      explore, choice, fallback)
    \/ EnterNegotiation
    \/ \E explore \in BOOLEAN, choice \in ActionSet : Round(explore, choice)
    \/ ForcedAccept
    \/ Settle
    \/ LearnWeights
    \/ LearnReward
    \/ LearnQ
    \/ Tick /\ UNCHANGED <<settled, aiVars>>

SpecSim == InitMarket /\ [][NextSim]_vars

\* ------------------------------------------------------------------ claims
\* the step is a call of one of the four value-moving methods
MutatorStep ==
    \/ /\ last'.op = "transfer"
       /\ \E s \in Names, r \in Names, a \in Amounts, sv \in Services : transfer(s, r, a, sv)
    \/ /\ last'.op = "lock_funds"
       /\ \E n \in Names, a \in Amounts, p \in Purposes : lock_funds(n, a, p)
    \/ /\ last'.op = "release_funds"
       /\ \E l \in LockIds, n \in Names : release_funds(l, n)
    \/ /\ last'.op = "return_locked_funds"
       /\ \E l \in LockIds : return_locked_funds(l)

\* the two account tables agree on every name but n
SameExcept(before, after, n) ==
    /\ (DOMAIN after) \ {n} = (DOMAIN before) \ {n}
    /\ \A m \in (DOMAIN before) \ {n} : after[m] = before[m]

\* C1: every call of transfer, lock_funds, release_funds or return_locked_funds,
\* successful or failed, leaves the total supply (balances plus active escrow
\* amounts) as it was.
Conservation == [][MutatorStep => TotalSupply' = TotalSupply]_vars

\* C2: in every reachable state every account balance is >= 0.
NoNegativeBalance == \A n \in DOMAIN accounts : accounts[n] >= 0

\* C3: once a release or return has succeeded for a lock id, every later
\* release_funds or return_locked_funds call with that id returns false and
\* credits no account.
SingleSettlement ==
    [][last'.op \in {"release_funds", "return_locked_funds"} =>
          \A l \in settled :
              ((\E n \in Names : release_funds(l, n)) \/ return_locked_funds(l))
                  => (last'.ret = "False" /\ accounts' = accounts)]_vars

\* C4: with interleaved callers no balance is ever negative, and whenever no
\* caller is inside a call the total supply is the initial one.
AtomicMutators ==
    /\ \A n \in DOMAIN accounts : accounts[n] >= 0
    /\ Quiescent => TotalSupply = TotalSupplyOf(ConcAccounts, <<>>)

\* C5: transfer returns true exactly when the sender's balance is >= amount,
\* and then the sender is debited by amount, the receiver credited by amount
\* (no change when they are the same account), nothing else changes and
\* exactly one record {sender, receiver, amount, service} is appended.
TransferContract ==
    [][last'.op = "transfer" =>
        \A s \in Names, r \in Names, a \in Amounts, sv \in Services :
          transfer(s, r, a, sv) =>
              /\ (last'.ret = "True") <=> (get_balance(s) >= a)
              /\ last'.ret = "True" =>
                    /\ Get(accounts', s, DefaultBalance) =
                           get_balance(s) - (IF s = r THEN 0 ELSE a)
                    /\ Get(accounts', r, DefaultBalance) =
                           get_balance(r) + (IF s = r THEN 0 ELSE a)
                    /\ \A m \in Names \ {s, r} :
                           (m \in DOMAIN accounts') = (m \in DOMAIN accounts)
                    /\ \A m \in (DOMAIN accounts) \ {s, r} : accounts'[m] = accounts[m]
                    /\ locked_funds' = locked_funds
                    /\ Len(transaction_history') = Len(transaction_history) + 1
                    /\ SubSeq(transaction_history', 1, Len(transaction_history))
                           = transaction_history
                    /\ LET tx == transaction_history'[Len(transaction_history')]
                       IN tx.sender = s /\ tx.receiver = r /\ tx.amount = a
                          /\ tx.service = sv]_vars

\* C6: a transfer whose sender has less than amount returns false and leaves
\* balances, the set of accounts, the escrow table and the history unchanged.
FailedTransferChangesNothing ==
    [][last'.op = "transfer" =>
        \A s \in Names, r \in Names, a \in Amounts, sv \in Services :
          (get_balance(s) < a /\ transfer(s, r, a, sv)) =>
              /\ last'.ret = "False"
              /\ accounts' = accounts
              /\ locked_funds' = locked_funds
              /\ transaction_history' = transaction_history]_vars

\* a transfer has just been refused while an account and an escrow lock exist
FailedTransferSeen ==
    /\ last.op = "transfer" /\ last.ret = "False"
    /\ DOMAIN accounts # {}
    /\ DOMAIN locked_funds # {}

\* C7: lock_funds debits the account by amount and records the lock {owner,
\* amount, purpose} under the returned id only when the balance is >= amount
\* (and does so for an existing account with such a balance); with a smaller
\* balance it returns no lock id and changes nothing.
LockFundsContract ==
    [][last'.op = "lock_funds" =>
        \A n \in Names, a \in Amounts, p \in Purposes :
          lock_funds(n, a, p) =>
              /\ get_balance(n) < a =>
                    /\ last'.ret = "None"
                    /\ accounts' = accounts
                    /\ locked_funds' = locked_funds
              /\ (accounts' # accounts \/ locked_funds' # locked_funds
                     \/ last'.ret = "lock_id") =>
                    /\ get_balance(n) >= a
                    /\ n \in DOMAIN accounts
              /\ (n \in DOMAIN accounts /\ get_balance(n) >= a) =>
                    /\ last'.ret = "lock_id"
                    /\ accounts'[n] = accounts[n] - a
                    /\ SameExcept(accounts, accounts', n)
                    /\ last'.lock \in DOMAIN locked_funds'
                    /\ locked_funds'[last'.lock].agent = n
                    /\ locked_funds'[last'.lock].amount = a
                    /\ locked_funds'[last'.lock].purpose = p
              /\ transaction_history' = transaction_history]_vars

\* lock_funds has just been refused for an account that exists
LockRefusedSeen ==
    /\ last.op = "lock_funds" /\ last.ret = "None"
    /\ \E n \in DOMAIN accounts : accounts[n] < MaxAmount

ReturnFundsContract ==
    [][last'.op = "return_locked_funds" =>
        \A l \in LockIds :
          return_locked_funds(l) =>
              IF l \in DOMAIN locked_funds
              THEN LET owner == locked_funds[l].agent
                   IN /\ last'.ret = "True"
                      /\ owner \in DOMAIN accounts
                      /\ accounts'[owner] = accounts[owner] + locked_funds[l].amount
                      /\ SameExcept(accounts, accounts', owner)
                      /\ DOMAIN locked_funds' = (DOMAIN locked_funds) \ {l}
                      /\ \A k \in DOMAIN locked_funds' : locked_funds'[k] = locked_funds[k]
                      /\ (last.op = "lock_funds" /\ last.ret = "lock_id" /\ last.lock = l)
                            => accounts'[owner] = last.bal
              ELSE /\ last'.ret = "False"
                   /\ accounts' = accounts
                   /\ locked_funds' = locked_funds]_vars

\* return_locked_funds has just given a positive locked amount back
ReturnSeen ==
    /\ last.op = "return_locked_funds" /\ last.ret = "True"
    /\ last.lock \notin DOMAIN locked_funds
    /\ \E n \in DOMAIN accounts : accounts[n] > 0

\* C10: the total supply never decreases, and it changes only in a
\* create_account step.
SupplyChangesOnlyByCreation ==
    [][/\ TotalSupply' >= TotalSupply
       /\ TotalSupply' # TotalSupply =>
              \E n \in Names, b \in InitialBalances : create_account(n, b)]_vars

\* C11: every call of transfer, lock_funds, release_funds or
\* return_locked_funds, for any account names and any amount >= 0, returns a
\* success value or a failure value (False, no lock id), never raises, and
\* returns a failure value only when it moved nothing.
ExplicitFailureResults ==
    [][MutatorStep =>
          /\ last'.ret \in {"True", "False", "None", "lock_id"}
          /\ last'.ret \in {"False", "None"} =>
                (accounts' = accounts /\ locked_funds' = locked_funds)]_vars

\* the decision points of the call in progress: the actions get_action selected
DecisionPoints == Cardinality({i \in 1 .. Len(taken) : taken[i].chosen})

\* C12: negotiate always terminates: whatever max_rounds >= 0, the Q-table and
\* the actions chosen, it selects an action at no more than max_rounds
\* decision points, and a call that was entered returns.
NegotiateTerminates ==
    /\ [](DecisionPoints <= neg.max_rounds)
    /\ (neg.pc = "loop") ~> (neg.pc = "returned")

\* a call with the largest round limit has returned from its last round
TerminatedInLastRound ==
    /\ neg.pc = "returned"
    /\ neg.max_rounds = MaxRounds
    /\ DecisionPoints = MaxRounds
    /\ neg.outcome = "reject"

\* the counter actions
Counters == {"counter_low", "counter_high"}

\* the offer o after a counter action, as the specification gives it:
\* max(1, floor(0.8 * o)) and floor(1.2 * o)
CounterOffer(o, action) ==
    IF action = "counter_low"
    THEN (IF (4 * o) \div 5 >= 1 THEN (4 * o) \div 5 ELSE 1)
    ELSE (6 * o) \div 5

\* the offer after the first n decisions of the call, all of them counters
RECURSIVE OfferAfter(_)
OfferAfter(n) ==
    IF n = 0 THEN neg.initial_offer ELSE CounterOffer(OfferAfter(n - 1), taken[n].action)

ReturnShapes ==
    /\ neg.pc = "returned" =>
          LET k == Len(taken)
              d == taken[k]
          IN /\ \/ neg.outcome = "accept" /\ neg.price = OfferAfter(k - 1)
                \/ neg.outcome = "reject" /\ neg.price = 0
             /\ d.action = "accept" => (neg.outcome = "accept" /\ neg.price = d.offer)
             /\ d.action = "reject" => neg.outcome = "reject"
             /\ d.action \notin Counters
             /\ d.chosen => neg.round_num = k - 1
    /\ neg.pc = "loop" => \A i \in 1 .. Len(taken) : taken[i].action \in Counters

\* accept was chosen in a round after a counter that moved the offer
AcceptAfterCounterSeen ==
    /\ neg.pc = "returned" /\ neg.outcome = "accept"
    /\ Len(taken) >= 2
    /\ taken[Len(taken)].chosen
    /\ neg.price # neg.initial_offer

\* C15: counter_low replaces the current offer o by max(1, floor(0.8 * o)) and
\* counter_high by floor(1.2 * o); a counter uses up one round and has the
\* reward -0.1; no other action changes the current offer.
CounterTransitions ==
    [][IF Len(taken') = Len(taken) + 1
       THEN LET d == taken'[Len(taken')]
            IN IF d.action \in Counters
               THEN /\ neg'.current_offer = CounterOffer(neg.current_offer, d.action)
                    /\ neg'.round_num = neg.round_num + 1
                    /\ neg'.pc = "loop"
                    /\ 10 * d.reward = 0 - Scale
               ELSE neg'.current_offer = neg.current_offer
       ELSE neg'.pc = neg.pc => neg'.current_offer = neg.current_offer]_vars

\* counter_low has been held at the floor of 1
CounterLowFloorSeen ==
    /\ neg.pc = "loop" /\ taken # <<>>
    /\ taken[Len(taken)].action = "counter_low"
    /\ taken[Len(taken)].offer = 1
    /\ neg.current_offer = 1

\* the reward of a deal at final price f and market price m as the
\* specification's table gives it (ratio = f / m), in units of 1 / Scale
ShapedReward(f, m) ==
    CASE 5 * f > 6 * m                 -> Scale
      [] f > m /\ 5 * f <= 6 * m       -> Scale \div 2
      [] 5 * f > 4 * m /\ f <= m       -> 0
      [] 5 * f <= 4 * m                -> 0 - (Scale \div 2)

\* C16: the reward of a terminal outcome is -1.0 when no deal is made, and
\* for a deal +1.0 when ratio > 1.2, +0.5 when 1.0 < ratio <= 1.2, 0.0 when
\* 0.8 < ratio <= 1.0 and -0.5 when ratio <= 0.8.
RewardShaping ==
    \A i \in 1 .. Len(taken) :
        /\ taken[i].action = "reject" => taken[i].reward = 0 - Scale
        /\ taken[i].action = "accept" =>
              taken[i].reward = ShapedReward(taken[i].offer, neg.market_price)

\* a deal was made at exactly 1.2 times the market price and rewarded with 0.5
UpperBoundaryDealSeen ==
    \E i \in 1 .. Len(taken) :
        /\ taken[i].action = "accept"
        /\ 5 * taken[i].offer = 6 * neg.market_price
        /\ 2 * taken[i].reward = Scale

\* C17, as stated: a deal whose final price is exactly 0.8 times the market
\* price receives the reward 0.0.
BoundaryDealRewardedZero ==
    \A i \in 1 .. Len(taken) :
        (taken[i].action = "accept" /\ 5 * taken[i].offer = 4 * neg.market_price)
            => taken[i].reward = 0

\* C17, amended: a deal whose final price is exactly 0.8 times the market
\* price receives the reward -0.5.
BoundaryDealRewardedPoor ==
    \A i \in 1 .. Len(taken) :
        (taken[i].action = "accept" /\ 5 * taken[i].offer = 4 * neg.market_price)
            => 2 * taken[i].reward = 0 - Scale

\* a deal was made at final price 4 for the market price 5
LowerBoundaryDealSeen ==
    \E i \in 1 .. Len(taken) :
        /\ taken[i].action = "accept"
        /\ taken[i].offer = 4 /\ neg.market_price = 5

\* the buckets of the specification: price ratio offer / max(market price, 1)
\* low < 0.8 <= fair < 1.2 <= high; reputation low < 3.0 <= medium < 4.5 <=
\* high; urgency low < 0.3 <= medium < 0.7 <= high
PriceBucket(offer, market) ==
    LET m == IF market >= 1 THEN market ELSE 1
    IN CASE 5 * offer < 4 * m                      -> "low"
         [] 5 * offer >= 4 * m /\ 5 * offer < 6 * m -> "fair"
         [] 5 * offer >= 6 * m                     -> "high"

ReputationBucket(reputation) ==
    CASE reputation < 30                       -> "low"
      [] reputation >= 30 /\ reputation < 45   -> "medium"
      [] reputation >= 45                      -> "high"

UrgencyBucket(u) ==
    CASE 10 * u.num < 3 * u.den                            -> "low"
      [] 10 * u.num >= 3 * u.den /\ 10 * u.num < 7 * u.den -> "medium"
      [] 10 * u.num >= 7 * u.den                           -> "high"

\* service type and the three buckets of the arguments of a get_state call
Buckets(a) ==
    <<a.service_type, PriceBucket(a.offered_price, a.market_price),
      ReputationBucket(a.agent_reputation), UrgencyBucket(a.urgency)>>

\* the arguments get_state is called with
KeyInputs ==
    [service_type : KeyServices, offered_price : KeyOffers, market_price : KeyMarkets,
     agent_reputation : KeyReputations, urgency : KeyUrgencies]

\* C18: the state key is made of the service type and the price, reputation
\* and urgency buckets, and two inputs have the same key exactly when the
\* service type and the three buckets agree.
StateDerivation ==
    answer.op = "get_state" =>
        LET b == Buckets(answer.args)
        IN /\ answer.ret = b[1] \o "_" \o b[2] \o "_" \o b[3] \o "_" \o b[4]
           /\ \A j \in KeyInputs :
                 (get_state(j.service_type, j.offered_price, j.market_price,
                            j.agent_reputation, j.urgency) = answer.ret)
                     <=> (Buckets(j) = b)

\* a key was derived with the price ratio at 0.8 (offer 4 for the price 5), the
\* reputation at 3.0 and the urgency at 0.3
BoundaryKeySeen ==
    /\ answer.op = "get_state"
    /\ answer.args.offered_price = 4 /\ answer.args.market_price = 5
    /\ answer.args.agent_reputation = 30
    /\ answer.args.urgency = Urgency(3, 10)
    /\ answer.ret = "clean_data_fair_medium_medium"

\* the value of (state, action) in a table in which absent states count as
\* created with zeros
ValueIn(table, state, action) == IF state \in DOMAIN table THEN table[state][action] ELSE 0

\* the largest action value of a state
MaxIn(table, state) == IF state \in DOMAIN table THEN MaxValue(table[state]) ELSE 0

\* the state the call is in after this step: the state of the next round, or
\* the final state when the rounds are used up
FollowingState ==
    get_state(neg'.service_type, neg'.current_offer, neg'.market_price,
              neg'.agent_reputation,
              IF neg'.round_num < neg'.max_rounds
              THEN Urgency(neg'.round_num, neg'.max_rounds) ELSE Urgency(1, 1))

\* C19: after every action a taken in state s with reward r, Q(s,a) becomes
\* Q(s,a) + alpha * (r + gamma * M - Q(s,a)), where M is the largest action
\* value of the following state when the action is a counter, and 0 when the
\* action ends the negotiation.
BootstrappedUpdate ==
    [][Len(taken') = Len(taken) + 1 =>
          LET d == taken'[Len(taken')]
              q == ValueIn(q_table, d.state, d.action)
              M == IF d.action \in Counters THEN MaxIn(q_table, FollowingState) ELSE 0
          IN 100 * (ValueIn(q_table', d.state, d.action) - q)
                 = LearningRateTenths * (10 * d.reward + DiscountTenths * M - 10 * q)]_vars

\* the values bootstrapping can use: 0 and the largest value of a known state
BootstrapValues == {0} \cup {MaxValue(q_table[s]) : s \in DOMAIN q_table}

\* C20: every decision of a call, and the forced accept, is followed at once
\* by one update of its (state, action) pair, before the next action is
\* selected and before the call returns; no other entry of the Q-table changes,
\* and the Q-table changes at no other moment.
AllUpdatesBeforeReturn ==
    [][/\ Len(taken') = Len(taken) + 1 =>
             LET d == taken'[Len(taken')]
                 q == ValueIn(q_table, d.state, d.action)
             IN /\ neg.pc = "loop"
                /\ d.chosen = (neg.round_num < neg.max_rounds)
                /\ DOMAIN q_table' = (DOMAIN q_table) \cup {d.state}
                /\ \A s \in DOMAIN q_table', a \in ActionSet :
                      (s # d.state \/ a # d.action)
                          => q_table'[s][a] = ValueIn(q_table, s, a)
                /\ \E M \in BootstrapValues :
                      100 * (q_table'[d.state][d.action] - q)
                          = 10 * d.reward + 9 * M - 10 * q
       /\ q_table' # q_table => Len(taken') = Len(taken) + 1
       /\ (neg.pc = "loop" /\ neg'.pc = "returned") => Len(taken') = Len(taken) + 1]_vars

\* a call returned after MaxRounds counters and the forced accept, and the
\* values of its first and of its last decision have moved
EpisodeUpdatesSeen ==
    /\ neg.pc = "returned"
    /\ Len(taken) = MaxRounds + 1
    /\ q_table[taken[1].state][taken[1].action] # 0
    /\ q_table[taken[Len(taken)].state]["accept"] # 0

\* the states a direct call names: its state and, when given, its next state
Visited(call) ==
    IF call.op = "get_action" THEN {call.args.state}
    ELSE {call.args.state} \cup ({call.args.next_state} \ {NoState})

\* the entry an update_q_value call writes
Written(call, s, a) ==
    call.op = "update_q_value" /\ s = call.args.state /\ a = call.args.action

\* C21: a state absent from the Q-table is created by the get_action or
\* update_q_value call that first names it (as state or as next state), with
\* the four actions accept, reject, counter_low, counter_high all at zero
\* (the update then applies to that zero); the values of existing states are
\* not reset, and the call returns normally.
LazyStateInitialisation ==
    [][answer'.op \in {"get_action", "update_q_value"} =>
          LET call == answer'
              fresh == Visited(call) \ DOMAIN q_table
              four == {"accept", "reject", "counter_low", "counter_high"}
          IN /\ DOMAIN q_table' = DOMAIN q_table \cup Visited(call)
             /\ \A s \in DOMAIN q_table' : DOMAIN q_table'[s] = four
             /\ \A s \in fresh, a \in four :
                    IF Written(call, s, a)
                    THEN LET ns == call.args.next_state
                             M == MaxIn(q_table, ns)
                         IN 100 * q_table'[s][a] = 10 * call.args.reward + 9 * M
                    ELSE q_table'[s][a] = 0
             /\ \A s \in DOMAIN q_table, a \in four :
                    Written(call, s, a) \/ q_table'[s][a] = q_table[s][a]
             /\ call.ret \in four \cup {"None"}]_vars

\* one update_q_value call has created both its state and its next state
BothStatesCreatedSeen ==
    /\ answer.op = "update_q_value"
    /\ updates = 1
    /\ answer.args.next_state \notin {NoState, answer.args.state}
    /\ DOMAIN q_table = {answer.args.state, answer.args.next_state}

\* the place of an action in the fixed order accept, reject, counter_low,
\* counter_high
Place(a) ==
    CASE a = "accept" -> 1 [] a = "reject" -> 2 [] a = "counter_low" -> 3
      [] a = "counter_high" -> 4

\* the actions no other action of the row has a larger value than
Best(row) == {a \in DOMAIN row : \A b \in DOMAIN row : row[b] <= row[a]}

\* C22: a get_action call that does not explore returns an action of maximal
\* value in the state's row, and of several maximal actions the one that comes
\* first in the order accept, reject, counter_low, counter_high, whatever
\* updates built the row.
GreedyActionSelection ==
    [][(answer'.op = "get_action" /\ ~answer'.args.explore) =>
          LET row == q_table'[answer'.args.state]
          IN /\ answer'.ret \in Best(row)
             /\ \A a \in Best(row) : Place(answer'.ret) <= Place(a)]_vars

\* a greedy call on a row whose first two actions were updated downwards: the
\* two counter actions tie for the maximum and the earlier one is returned
LaterTieSeen ==
    /\ answer.op = "get_action"
    /\ ~answer.args.explore
    /\ Best(q_table[answer.args.state]) = {"counter_low", "counter_high"}
    /\ answer.ret = "counter_low"

UcbInitialExploration ==
    /\ (answer.op = "select_ucb1" /\ \E a \in ArmSet : selection_count[a] = 0)
           => selection_count[answer.ret] = 0
    /\ total_selections <= Len(Arms) => \A a \in ArmSet : selection_count[a] <= 1
    /\ total_selections = Len(Arms) => \A a \in ArmSet : selection_count[a] = 1

\* the N-th update of the sweep has been made, and the arm the first, random
\* selection took was not the first of the list
SweepCompletedSeen ==
    /\ total_selections = Len(Arms)
    /\ answer.op = "update_reward"
    /\ answer.args.agent = Arms[2]

\* max(count, 1)
AtLeastOne(n) == IF n < 1 THEN 1 ELSE n

\* the average of a, cumulative reward / max(count, 1), is not below that of b
AverageAtLeast(a, b) ==
    cumulative_reward[a] * AtLeastOne(selection_count[b])
        >= cumulative_reward[b] * AtLeastOne(selection_count[a])

\* the arms of highest average
HighestAverage == {a \in ArmSet : \A b \in ArmSet : AverageAtLeast(a, b)}

\* the first arm of highest average in the arm list DataProcessor_A,
\* Translator_B, Computer_C
FirstOfHighestAverage ==
    CHOOSE a \in HighestAverage :
        \A b \in HighestAverage : ArmPlace(a) <= ArmPlace(b)

\* C25: a select_epsilon_greedy call whose draw is not below epsilon (every
\* call when epsilon = 0), in any state, also before any reward is recorded,
\* returns the arm of highest average reward, the first in the arm list among
\* equals.
EpsilonGreedyExploits ==
    [][(answer'.op = "select_epsilon_greedy" /\ ~answer'.args.below) =>
          answer'.ret = FirstOfHighestAverage]_vars

\* S: the recorded rewards of an arm strictly above 0.5 (2 quarters)
AboveHalf(a) == Cardinality({i \in DOMAIN rewards[a] : rewards[a][i] > 2})

\* F: the recorded rewards of an arm not above 0.5
NotAboveHalf(a) == Cardinality({i \in DOMAIN rewards[a] : rewards[a][i] <= 2})

\* C26: for every arm and every reward history, select_thompson_sampling draws
\* from the Beta distribution of parameters (S + 1, F + 1), S the number of
\* the arm's rewards above 0.5 and F the number of those not above 0.5.
PosteriorParameters ==
    [][answer'.op = "select_thompson_sampling" =>
          \A a \in ArmSet : answer'.args[a] = <<AboveHalf(a) + 1, NotAboveHalf(a) + 1>>]_vars

\* C27: update_reward(a, r) for an arm a adds 1 to a's selection count, r to
\* its cumulative reward and 1 to the total, records r, and changes no other
\* arm; in every state the total is the sum of the counts and every count the
\* number of rewards recorded; and the selection call made right after an
\* update chooses from the updated averages.
RewardBookkeeping ==
    /\ [](/\ total_selections = SumValues(selection_count)
          /\ \A a \in ArmSet : selection_count[a] = Len(rewards[a]))
    /\ [][(answer'.op = "update_reward" /\ answer'.args.agent \in ArmSet) =>
             LET a == answer'.args.agent
                 r == answer'.args.reward
             IN /\ selection_count'[a] = selection_count[a] + 1
                /\ cumulative_reward'[a] = cumulative_reward[a] + r
                /\ rewards'[a] = rewards[a] \o <<r>>
                /\ total_selections' = total_selections + 1
                /\ \A b \in ArmSet \ {a} :
                       /\ selection_count'[b] = selection_count[b]
                       /\ cumulative_reward'[b] = cumulative_reward[b]
                       /\ rewards'[b] = rewards[b]]_vars
    /\ [][(/\ answer.op = "update_reward"
           /\ answer.ret = "None"
           /\ answer'.op = "select_epsilon_greedy"
           /\ ~answer'.args.below) => answer'.ret = FirstOfHighestAverage]_vars

\* recorded rewards have made the last arm of the list the one of highest
\* average, and a selection that does not explore has returned it
UpdatedAverageReadSeen ==
    /\ answer.op = "select_epsilon_greedy"
    /\ ~answer.args.below
    /\ answer.ret = Arms[3]
    /\ HighestAverage = {Arms[3]}
    /\ total_selections = MaxPulls

\* C28: update_reward and update_weights called for a counterparty that was
\* not in the arm list at construction return normally and leave that
\* counterparty with statistics of its own.
UnseenArmLearns ==
    [][(answer'.op \in {"update_reward", "update_weights"}
            /\ answer'.args.agent \notin ArmSet) =>
          /\ answer'.ret # "KeyError"
          /\ answer'.op = "update_reward" => answer'.args.agent \in DOMAIN rewards'
          /\ answer'.op = "update_weights" => answer'.args.agent \in DOMAIN weights']_vars

\* C29: whatever the ledger does, the history before a step is a prefix of
\* the history after it, records and their fields unchanged (so the history
\* at any earlier point is a prefix of the history at any later one); a
\* transfer that returns true appends exactly one record; a transfer that
\* fails appends none.  (A step that ends with last naming transfer is a
\* transfer call unless it is a tick of the clock, which leaves last alone.)
HistoryAppendOnly ==
    [][/\ Len(transaction_history) <= Len(transaction_history')
       /\ SubSeq(transaction_history', 1, Len(transaction_history)) = transaction_history
       /\ (last'.op = "transfer" /\ now' = now)
              => Len(transaction_history') =
                     Len(transaction_history) + (IF last'.ret = "True" THEN 1 ELSE 0)]_vars

\* a transfer has been refused after as many records as the bounds keep were
\* appended one after the other
RefusedAfterAppendsSeen ==
    /\ Len(transaction_history) = MaxRecords + 1
    /\ last.op = "transfer"
    /\ last.ret = "False"

\* C30: any two distinct records of the transaction history have different
\* tx_id values, also two transfers of the same sender, receiver and amount
\* made within the same clock second.
UniqueTransactionIds ==
    \A i \in DOMAIN transaction_history, j \in DOMAIN transaction_history :
        i # j => transaction_history[i].tx_id # transaction_history[j].tx_id

\* a step that is a read of the ledger: it leaves an answer other than the
\* one it found (a read that finds its own answer changes nothing at all)
ReadStep ==
    /\ answer'.op \in {"get_balance", "get_transaction_history", "get_ledger_stats"}
    /\ ~(/\ answer.op = answer'.op
         /\ answer.args = answer'.args
         /\ answer.ret = answer'.ret)

\* C31: get_balance, get_transaction_history and get_ledger_stats leave the
\* balances, the set of accounts, the escrow table and the history as they
\* were; get_balance reports 0 for an unknown account without creating it;
\* get_ledger_stats reports the sum of the balances plus the sum of the
\* amounts of the active locks, and the numbers of accounts, records and
\* active locks.
ReadsChangeNothing ==
    [][ReadStep =>
          /\ accounts' = accounts
          /\ locked_funds' = locked_funds
          /\ transaction_history' = transaction_history
          /\ (answer'.op = "get_balance" /\ answer'.args.agent_name \notin DOMAIN accounts)
                => answer'.ret = 0
          /\ (answer'.op = "get_balance" /\ answer'.args.agent_name \in DOMAIN accounts)
                => answer'.ret = accounts[answer'.args.agent_name]
          /\ answer'.op = "get_ledger_stats" =>
                /\ answer'.ret.total_supply =
                       SumValues(accounts)
                         + SumValues([l \in DOMAIN locked_funds |-> locked_funds[l].amount])
                /\ answer'.ret.total_accounts = Cardinality(DOMAIN accounts)
                /\ answer'.ret.total_transactions = Len(transaction_history)
                /\ answer'.ret.locked_funds = Cardinality(DOMAIN locked_funds)]_vars

\* the statistics have been read while a lock held a positive amount, and
\* they count it
StatsWithLockSeen ==
    /\ answer.op = "get_ledger_stats"
    /\ answer.ret.locked_funds = 1
    /\ answer.ret.total_supply > SumValues(accounts)

\* the balances of A and B
Balances(a, b) == [n \in {"A", "B"} |-> IF n = "A" THEN a ELSE b]

\* C32: from A = 100 and B = 100, transfer(A, B, 50) returns true and gives
\* A = 50, B = 150; there transfer(A, B, 100) returns false and leaves both
\* balances; there lock_funds(A, 30, escrow) returns a lock id and gives
\* A = 20; and return_locked_funds of that lock id returns true and gives
\* A = 50.
DocumentedScenario ==
    /\ [][(accounts = Balances(100, 100) /\ transfer("A", "B", 50, "clean_data"))
             => /\ last'.ret = "True"
                /\ accounts' = Balances(50, 150)]_vars
    /\ [][(accounts = Balances(50, 150) /\ transfer("A", "B", 100, "clean_data"))
             => /\ last'.ret = "False"
                /\ accounts' = Balances(50, 150)]_vars
    /\ [][(accounts = Balances(50, 150) /\ lock_funds("A", 30, "escrow"))
             => /\ last'.ret = "lock_id"
                /\ last'.lock \in DOMAIN locked_funds'
                /\ accounts' = Balances(20, 150)]_vars
    /\ [][(/\ accounts = Balances(20, 150)
           /\ last.op = "lock_funds" /\ last.ret = "lock_id" /\ last.bal = 50
           /\ locked_funds[last.lock].agent = "A"
           /\ return_locked_funds(last.lock))
             => /\ last'.ret = "True"
                /\ accounts' = Balances(50, 150)]_vars

\* the scenario has been played to its end: one record, of the transfer of
\* 50, no lock left, and the balances 50 and 150 after the lock was returned
ScenarioPlayedSeen ==
    /\ last.op = "return_locked_funds"
    /\ last.ret = "True"
    /\ accounts = Balances(50, 150)
    /\ locked_funds = <<>>
    /\ Len(transaction_history) = 1
    /\ transaction_history[1].amount = 50

\* C35: a lock_funds call that returns a lock id returns one that no active
\* lock has, adds exactly one lock to the escrow table and leaves every lock
\* that was active as it was, also when a lock with the same purpose was made
\* within the same clock second.  (A step that ends with last naming
\* lock_funds is a lock_funds call unless it is a tick of the clock.)
EveryLockIsNew ==
    [][(last'.op = "lock_funds" /\ last'.ret = "lock_id" /\ now' = now) =>
          /\ last'.lock \notin DOMAIN locked_funds
          /\ Cardinality(DOMAIN locked_funds') = Cardinality(DOMAIN locked_funds) + 1
          /\ \A l \in DOMAIN locked_funds :
                 /\ l \in DOMAIN locked_funds'
                 /\ locked_funds'[l] = locked_funds[l]]_vars

\* C36: create_account, lock_funds, release_funds and return_locked_funds
\* leave the transaction history as it was, and a step that changes the
\* history is a transfer: value that goes from one account to another through
\* lock_funds and release_funds leaves no record.
EscrowLeavesNoRecord ==
    [][/\ (last'.op \in {"create_account", "lock_funds", "release_funds",
                         "return_locked_funds"} /\ now' = now)
            => transaction_history' = transaction_history
       /\ transaction_history' # transaction_history => last'.op = "transfer"]_vars

\* a release has brought B the amount that A locked, and the history is empty
UnrecordedMoveSeen ==
    /\ last.op = "release_funds"
    /\ last.ret = "True"
    /\ accounts = Balances(OpeningBalance - ScenarioLock, OpeningBalance + ScenarioLock)
    /\ locked_funds = <<>>
    /\ transaction_history = <<>>

\* C37: in a negotiation entered with initial_offer >= 1 and market_price >= 1
\* the current offer is at least 1 at every decision and after it, the call
\* does not end in an arithmetic error, and an accept carries a price of at
\* least 1.
OfferStaysPositive ==
    (neg.pc # "idle" /\ neg.initial_offer >= 1 /\ neg.market_price >= 1) =>
        /\ neg.current_offer >= 1
        /\ \A i \in DOMAIN taken : taken[i].offer >= 1
        /\ neg.outcome # "ZeroDivisionError"
        /\ (neg.pc = "returned" /\ neg.outcome = "accept") => neg.price >= 1

\* an offer of 1 has been countered low, stayed 1 and been accepted
FlooredOfferAcceptedSeen ==
    /\ neg.pc = "returned"
    /\ neg.outcome = "accept"
    /\ neg.initial_offer = 1
    /\ neg.market_price = 1
    /\ neg.price = 1
    /\ \E i \in DOMAIN taken : taken[i].action = "counter_low" /\ taken[i].offer = 1

\* a negotiation at market price 0 has ended in the division of calculate_reward
DivisionByZeroSeen ==
    /\ neg.pc = "returned"
    /\ neg.outcome = "ZeroDivisionError"
    /\ neg.market_price = 0

\* the accounts after `amount` went from sender to receiver
Moved(accts, sender, receiver, amount) ==
    [n \in DOMAIN accts \cup {receiver} |->
        (IF n \in DOMAIN accts THEN accts[n] ELSE 0)
            - (IF n = sender THEN amount ELSE 0) + (IF n = receiver THEN amount ELSE 0)]

\* C38: a handle_request call that does not answer with success leaves the
\* balances and the history as they were; it answers success = false, with
\* nothing changed, when the provider does not offer the service, when the
\* offered price is below 0.8 times the provider's dynamic price and when the
\* sender's balance is below the offered price; when it answers with success
\* the offered price has gone from the sender to the provider, one record of
\* it was appended, and the cost of the response is the offered price.
HandleRequestSettles ==
    [][answer'.op = "handle_request" =>
          LET request == answer'.args
              response == answer'.ret
              offered == request.service_type \in DOMAIN ServicesOf[request.provider]
              price == IF offered
                       THEN (ServicesOf[request.provider][request.service_type]
                                * (10 + agents[request.provider].load)) \div 10
                       ELSE 0
              balance == IF request.sender \in DOMAIN accounts
                         THEN accounts[request.sender] ELSE 0
          IN /\ ~response.success =>
                    /\ accounts' = accounts
                    /\ transaction_history' = transaction_history
                    /\ locked_funds' = locked_funds
             /\ (\/ ~offered
                 \/ 10 * request.offered_price < 8 * price
                 \/ balance < request.offered_price) => ~response.success
             /\ response.success =>
                    /\ response.cost = request.offered_price
                    /\ accounts' = Moved(accounts, request.sender, request.provider,
                                         request.offered_price)
                    /\ Len(transaction_history') = Len(transaction_history) + 1
                    /\ SubSeq(transaction_history', 1, Len(transaction_history))
                           = transaction_history
                    /\ transaction_history'[Len(transaction_history')].amount
                           = request.offered_price
                    /\ locked_funds' = locked_funds]_vars

\* a request has been served and paid, and the next one, offering less than
\* 0.8 times the price, was refused
RefusedAfterServedSeen ==
    /\ answer.op = "handle_request"
    /\ ~answer.ret.success
    /\ answer.ret.message = "Price too low"
    /\ Len(transaction_history) = 1
    /\ accounts["Computer_C"] = OpeningBalance + 10

\* C33: in the rounds of the simulation a step that calls the ledger or
\* changes a balance or the history is taken only when the negotiation of the
\* round has returned accept, and the amount it asks the ledger to move is the
\* final price of that negotiation; from the moment a negotiation has returned
\* reject to the next round no balance changes and no record is appended.
SettlesOnlyAfterAccept ==
    /\ [][(\/ accounts' # accounts
           \/ transaction_history' # transaction_history
           \/ locked_funds' # locked_funds
           \/ answer'.op = "handle_request" /\ sim'.pc = "handled" /\ sim.pc = "chosen")
             => /\ neg.pc = "returned"
                /\ neg.outcome = "accept"
                /\ answer'.op = "handle_request"
                /\ answer'.args.offered_price = neg.price
                /\ transaction_history' # transaction_history =>
                       /\ Len(transaction_history') = Len(transaction_history) + 1
                       /\ transaction_history'[Len(transaction_history')].amount = neg.price
                       /\ transaction_history'[Len(transaction_history')].sender = sim.sender
                       /\ transaction_history'[Len(transaction_history')].receiver
                              = sim.receiver]_vars
    /\ [][(neg.pc = "returned" /\ neg.outcome = "reject")
             => /\ accounts' = accounts
                /\ transaction_history' = transaction_history
                /\ locked_funds' = locked_funds
                /\ last' = last]_vars

\* a round has been settled at a price the negotiation moved away from the
\* price first offered
CounteredPricePaidSeen ==
    /\ sim.pc = "handled"
    /\ sim.success
    /\ neg.price # sim.offered_price
    /\ Len(transaction_history) = 1
    /\ transaction_history[1].amount = neg.price
    /\ accounts[sim.sender] = OpeningBalance - neg.price

\* a round has ended in a rejected negotiation
RejectedRoundSeen ==
    /\ sim.pc = "rejected"
    /\ transaction_history = <<>>
    /\ accounts = MarketAccounts

====
